---- MODULE Spec2Model ----
(***************************************************************************)
(* Brizo SDK: the upload pipeline (Files.upload), the batch scheduler      *)
(* (Files.uploadBatch) and the transport's error mapping.                  *)
(*                                                                         *)
(* JavaScript runs one task at a time.  A step of this model is one run of *)
(* the event loop: either a transport event (a response, a network error   *)
(* or a timeout of one request) together with the synchronous code it      *)
(* resumes up to the next await, or one microtask (the resumption of an    *)
(* uploadFile or of uploadBatch after the promise it awaits settled).      *)
(* Microtasks run in FIFO order and before the next transport event.       *)
(*                                                                         *)
(* Strings the code takes apart (paths, filenames) are sequences of        *)
(* one-character strings; a nullable value is a sequence of length <= 1.   *)
(***************************************************************************)
EXTENDS Integers, Sequences, FiniteSets, TLC

\* ------------------------------------------------------------------ bounds
MaxFiles == 3
MaxConcurrency == 2
MaxChunks == 4

\* --------------------------------------------------------------- constants
DefaultConcurrency == 3

\* ------------------------------------------------------------ JS strings
WhiteSpace == {" ", "\t", "\n"}

RECURSIVE Str(_)
Str(cs) == IF cs = <<>> THEN "" ELSE Head(cs) \o Str(Tail(cs))

RECURSIVE TrimStart(_)
TrimStart(cs) ==
  IF cs # <<>> /\ Head(cs) \in WhiteSpace THEN TrimStart(Tail(cs)) ELSE cs

RECURSIVE TrimEnd(_)
TrimEnd(cs) ==
  IF cs # <<>> /\ cs[Len(cs)] \in WhiteSpace
    THEN TrimEnd(SubSeq(cs, 1, Len(cs) - 1))
    ELSE cs

Trim(cs) == TrimEnd(TrimStart(cs))

RECURSIVE StripTrailingSlashes(_)
StripTrailingSlashes(cs) ==
  IF Len(cs) > 1 /\ cs[Len(cs)] = "/"
    THEN StripTrailingSlashes(SubSeq(cs, 1, Len(cs) - 1))
    ELSE cs

\* path.basename (posix): the part after the last "/", trailing slashes dropped
Basename(cs) ==
  LET p == StripTrailingSlashes(cs)
      slashes == {k \in 1..Len(p) : p[k] = "/"}
      last == IF slashes = {} THEN 0 ELSE CHOOSE k \in slashes : \A j \in slashes : j <= k
  IN  IF p = <<"/">> THEN <<>> ELSE SubSeq(p, last + 1, Len(p))

\* --------------------------------------------------------- more strings
Digits == <<"0", "1", "2", "3", "4", "5", "6", "7", "8", "9">>

RECURSIVE NatChars(_)
NatChars(n) == IF n < 10 THEN <<Digits[n + 1]>> ELSE NatChars(n \div 10) \o <<Digits[(n % 10) + 1]>>

\* String(n) of an integer
IntChars(n) == IF n < 0 THEN <<"-">> \o NatChars(-n) ELSE NatChars(n)

Upper == <<"A", "B", "C", "D", "E", "F", "G", "H", "I", "J", "K", "L", "M",
           "N", "O", "P", "Q", "R", "S", "T", "U", "V", "W", "X", "Y", "Z">>
Lower == <<"a", "b", "c", "d", "e", "f", "g", "h", "i", "j", "k", "l", "m",
           "n", "o", "p", "q", "r", "s", "t", "u", "v", "w", "x", "y", "z">>

LowerChar(c) ==
  IF \E k \in 1..26 : Upper[k] = c THEN Lower[CHOOSE k \in 1..26 : Upper[k] = c] ELSE c

toLowerCase(cs) == [k \in 1..Len(cs) |-> LowerChar(cs[k])]

\* String.prototype.includes
includes(cs, sub) ==
  \E k \in 1..(Len(cs) - Len(sub) + 1) : SubSeq(cs, k, k + Len(sub) - 1) = sub

\* String.prototype.slice(1)
slice1(cs) == IF cs = <<>> THEN <<>> ELSE Tail(cs)

\* path.extname: from the last "." of the base name, "" when there is none or
\* when the base name starts with its only "."
extname(cs) ==
  LET b == Basename(cs)
      dots == {k \in 1..Len(b) : b[k] = "."}
      last == IF dots = {} THEN 0 ELSE CHOOSE k \in dots : \A j \in dots : j <= k
  IN  IF last <= 1 \/ b = <<".", ".">> THEN <<>> ELSE SubSeq(b, last, Len(b))

\* the table mimeTypes of Files._getMimeType: <<extension, MIME type>>
mimeTypes ==
  <<
     <<"jpg", "image/jpeg">>,
     <<"jpeg", "image/jpeg">>,
     <<"png", "image/png">>,
     <<"gif", "image/gif">>,
     <<"webp", "image/webp">>,
     <<"svg", "image/svg+xml">>,
     <<"ico", "image/x-icon">>,
     <<"bmp", "image/bmp">>,
     <<"tiff", "image/tiff">>,
     <<"tif", "image/tiff">>,
     <<"pdf", "application/pdf">>,
     <<"doc", "application/msword">>,
     <<"docx", "application/vnd.openxmlformats-officedocument.wordprocessingml.document">>,
     <<"xls", "application/vnd.ms-excel">>,
     <<"xlsx", "application/vnd.openxmlformats-officedocument.spreadsheetml.sheet">>,
     <<"ppt", "application/vnd.ms-powerpoint">>,
     <<"pptx", "application/vnd.openxmlformats-officedocument.presentationml.presentation">>,
     <<"odt", "application/vnd.oasis.opendocument.text">>,
     <<"ods", "application/vnd.oasis.opendocument.spreadsheet">>,
     <<"txt", "text/plain">>,
     <<"html", "text/html">>,
     <<"htm", "text/html">>,
     <<"css", "text/css">>,
     <<"csv", "text/csv">>,
     <<"xml", "text/xml">>,
     <<"md", "text/markdown">>,
     <<"js", "application/javascript">>,
     <<"mjs", "application/javascript">>,
     <<"json", "application/json">>,
     <<"ts", "text/typescript">>,
     <<"py", "text/x-python">>,
     <<"rb", "text/x-ruby">>,
     <<"java", "text/x-java">>,
     <<"c", "text/x-c">>,
     <<"cpp", "text/x-c++">>,
     <<"h", "text/x-c">>,
     <<"hpp", "text/x-c++">>,
     <<"go", "text/x-go">>,
     <<"rs", "text/x-rust">>,
     <<"php", "application/x-php">>,
     <<"sh", "application/x-sh">>,
     <<"yaml", "text/yaml">>,
     <<"yml", "text/yaml">>,
     <<"mp3", "audio/mpeg">>,
     <<"wav", "audio/wav">>,
     <<"ogg", "audio/ogg">>,
     <<"m4a", "audio/mp4">>,
     <<"flac", "audio/flac">>,
     <<"aac", "audio/aac">>,
     <<"mp4", "video/mp4">>,
     <<"webm", "video/webm">>,
     <<"avi", "video/x-msvideo">>,
     <<"mov", "video/quicktime">>,
     <<"mkv", "video/x-matroska">>,
     <<"wmv", "video/x-ms-wmv">>,
     <<"zip", "application/zip">>,
     <<"rar", "application/x-rar-compressed">>,
     <<"7z", "application/x-7z-compressed">>,
     <<"tar", "application/x-tar">>,
     <<"gz", "application/gzip">>,
     <<"bz2", "application/x-bzip2">>,
     <<"woff", "font/woff">>,
     <<"woff2", "font/woff2">>,
     <<"ttf", "font/ttf">>,
     <<"otf", "font/otf">>,
     <<"eot", "application/vnd.ms-fontobject">>,
     <<"exe", "application/x-msdownload">>,
     <<"dll", "application/x-msdownload">>,
     <<"dmg", "application/x-apple-diskimage">>,
     <<"iso", "application/x-iso9660-image">>,
     <<"apk", "application/vnd.android.package-archive">>
  >>

\* mimeTypes is an object literal: a property it does not have itself is read
\* from Object.prototype.  The lower-case names found there, with a rendering
\* of their (truthy, non-string) values: the function Object and the
\* prototype object itself.
ObjectPrototype ==
  << <<"constructor", "[Function: Object]">>,
     <<"__proto__", "[Object: null prototype] {}">> >>

\* mimeTypes[ext] || "application/octet-stream"
lookupMime(ext) ==
  IF \E k \in 1..Len(mimeTypes) : mimeTypes[k][1] = ext
    THEN mimeTypes[CHOOSE k \in 1..Len(mimeTypes) : mimeTypes[k][1] = ext][2]
  ELSE IF \E k \in 1..Len(ObjectPrototype) : ObjectPrototype[k][1] = ext
    THEN ObjectPrototype[CHOOSE k \in 1..Len(ObjectPrototype) : ObjectPrototype[k][1] = ext][2]
  ELSE "application/octet-stream"

\* Files._getMimeType
getMimeType(filename) == lookupMime(Str(slice1(toLowerCase(extname(filename)))))

\* ------------------------------------------------------------- JS values
\* options.file: a string (path), a Buffer, undefined, null or something else
FUndefined == [t |-> "undefined", v |-> <<>>, len |-> 0]
FNull      == [t |-> "null",      v |-> <<>>, len |-> 0]
FString(cs) == [t |-> "string",   v |-> cs,   len |-> 0]
FBuffer(n) == [t |-> "buffer",    v |-> <<>>, len |-> n]
FNumber    == [t |-> "number",    v |-> <<>>, len |-> 0]

\* An upload request (UploadOptions).  t = "null" is a null/undefined options
\* value; filename <<>> , mimeType "" and folderId "" are the falsy values;
\* onProgress is "none" or the kind of function it is: one that returns
\* ("returns"), one that throws ("throws"), one that throws when it is passed
\* 100 ("throws100").
Req(file, filename, mimeType, folderId, onProgress) ==
  [t |-> "object", file |-> file, filename |-> filename, mimeType |-> mimeType,
   folderId |-> folderId, onProgress |-> onProgress]

NullReq ==
  [t |-> "null", file |-> FUndefined, filename |-> <<>>, mimeType |-> "",
   folderId |-> "", onProgress |-> "none"]

\* The file system the calls run against: fs.existsSync / fs.statSync
PathA == <<"d", "/", "a", ".", "t", "x", "t">>
PathMissing == <<"n", "o", ".", "t", "x", "t">>
NameB == <<"b", ".", "p", "n", "g">>
NameHello == <<"h", "e", "l", "l", "o", ".", "t", "x", "t">>
NameUpper == <<"R", ".", "J", "P", "E", "G">>
NameUnknown == <<"a", ".", "x", "y", "z">>
NameConstructor == <<"x", ".", "c", "o", "n", "s", "t", "r", "u", "c", "t", "o", "r">>
FsFiles == {[path |-> PathA, size |-> 4]}

existsSync(p) == \E f \in FsFiles : f.path = p
statSize(p) == (CHOOSE f \in FsFiles : f.path = p).size

\* ---------------------------------------------------------------- errors
\* BrizoError and its subclasses (statusCode, retryAfter, details: nullable)
BrizoError(message, statusCode, code, details) ==
  [name |-> "BrizoError", message |-> message, statusCode |-> statusCode,
   code |-> code, details |-> details, retryAfter |-> <<>>]

AuthenticationError(message) ==
  [BrizoError(message, <<401>>, <<"AUTH_ERROR">>, <<>>) EXCEPT !.name = "AuthenticationError"]

NotFoundError(message) ==
  [BrizoError(message, <<404>>, <<"NOT_FOUND">>, <<>>) EXCEPT !.name = "NotFoundError"]

ValidationError(message, details) ==
  [BrizoError(message, <<400>>, <<"VALIDATION_ERROR">>, details) EXCEPT !.name = "ValidationError"]

RateLimitError(message, retryAfter) ==
  [BrizoError(message, <<429>>, <<"RATE_LIMIT">>, <<>>)
     EXCEPT !.name = "RateLimitError", !.retryAfter = retryAfter]

LimitExceededError(message) ==
  [BrizoError(message, <<403>>, <<"LIMIT_EXCEEDED">>, <<>>) EXCEPT !.name = "LimitExceededError"]

UploadError(message, details) ==
  [BrizoError(message, <<500>>, <<"UPLOAD_ERROR">>, details) EXCEPT !.name = "UploadError"]

\* An exception of the JavaScript runtime or of a caller's callback
JsError(name, message) ==
  [name |-> name, message |-> message, statusCode |-> <<>>, code |-> <<>>,
   details |-> <<>>, retryAfter |-> <<>>]

NoError == JsError("none", "")

\* a value of a parsed JSON body: a string, a number or undefined
JStr(cs) == [t |-> "string", cs |-> cs, n |-> 0]
JNum(n) == [t |-> "number", cs |-> <<>>, n |-> n]
JUndefined == [t |-> "undefined", cs |-> <<>>, n |-> 0]

Truthy(v) == (v.t = "string" /\ v.cs # <<>>) \/ (v.t = "number" /\ v.n # 0)

\* String(v), as the Error constructor applies it to its message
ToStr(v) == IF v.t = "string" THEN Str(v.cs) ELSE IF v.t = "number" THEN Str(IntChars(v.n)) ELSE "undefined"

\* a parsed response body, as far as the SDK reads it: null, or an object
\* with the properties message, error and details (each possibly undefined)
Body(message, error, details) ==
  [nil |-> FALSE, message |-> message, error |-> error, details |-> details]
EmptyBody == Body(JUndefined, JUndefined, <<>>)
NullBody == [EmptyBody EXCEPT !.nil = TRUE]

\* body?.message, body?.error, body?.details
OptMessage(body) == IF body.nil THEN JUndefined ELSE body.message
OptError(body) == IF body.nil THEN JUndefined ELSE body.error
OptDetails(body) == IF body.nil THEN <<>> ELSE body.details

\* a JS number that may be NaN
Num(n) == [nan |-> FALSE, n |-> n]
NaN == [nan |-> TRUE, n |-> 0]

DigitVal(c) == (CHOOSE k \in 1..10 : Digits[k] = c) - 1
IsDigit(c) == \E k \in 1..10 : Digits[k] = c

RECURSIVE DigitsValue(_, _)
DigitsValue(cs, acc) ==
  IF cs = <<>> \/ ~IsDigit(Head(cs)) THEN acc ELSE DigitsValue(Tail(cs), 10 * acc + DigitVal(Head(cs)))

\* Number.parseInt(cs, 10): leading white space, a sign, then the longest run of digits
parseInt(cs) ==
  LET s == TrimStart(cs)
      neg == s # <<>> /\ Head(s) = "-"
      u == IF s # <<>> /\ Head(s) \in {"-", "+"} THEN Tail(s) ELSE s
  IN  IF u = <<>> \/ ~IsDigit(Head(u)) THEN NaN
      ELSE Num(IF neg THEN 0 - DigitsValue(u, 0) ELSE DigitsValue(u, 0))

\* ---------------------------------------------------------- error mapper
RequestFailedWithStatus == <<"R", "e", "q", "u", "e", "s", "t", " ", "f", "a", "i", "l", "e", "d", " ", "w", "i", "t", "h", " ", "s", "t", "a", "t", "u", "s", " ">>

\* HttpClient._createError(statusCode, body, headers); retryAfterHeader is
\* headers["retry-after"] (<<>> when absent).  threw: message.toLowerCase is
\* not a function.
createError(statusCode, body, retryAfterHeader) ==
  LET message == IF Truthy(OptMessage(body)) THEN OptMessage(body)
                 ELSE IF Truthy(OptError(body)) THEN OptError(body)
                 ELSE JStr(RequestFailedWithStatus \o IntChars(statusCode))
      Ret(e) == [threw |-> FALSE, err |-> e]
  IN  CASE statusCode = 401 -> Ret(AuthenticationError(ToStr(message)))
        [] statusCode = 404 -> Ret(NotFoundError(ToStr(message)))
        [] statusCode = 400 -> Ret(ValidationError(ToStr(message), OptDetails(body)))
        [] statusCode = 429 ->
             Ret(RateLimitError(ToStr(message),
                   IF retryAfterHeader # <<>> THEN <<parseInt(retryAfterHeader)>> ELSE <<>>))
        [] statusCode = 403 ->
             IF message.t # "string"
               THEN [threw |-> TRUE, err |-> JsError("TypeError", "message.toLowerCase is not a function")]
               ELSE IF includes(toLowerCase(message.cs), <<"l", "i", "m", "i", "t">>)
                 THEN Ret(LimitExceededError(ToStr(message)))
                 ELSE Ret(BrizoError(ToStr(message), <<statusCode>>, <<"FORBIDDEN">>, <<>>))
        [] OTHER -> Ret(BrizoError(ToStr(message), <<statusCode>>, <<>>, <<>>))

\* a call of _createError: pc is "none", "called", "returned" or "threw"
MapperCall(statusCode, body, headers) ==
  [pc |-> "called", statusCode |-> statusCode, body |-> body, headers |-> headers,
   err |-> NoError]

NoMapperCall == [MapperCall(0, EmptyBody, <<>>) EXCEPT !.pc = "none"]

\* -------------------------------------------------------------- transport
\* What the network does to one request: a response (status, parsed body,
\* retry-after header), a socket error, or the request's timeout.
Response(status, body, retryAfterHeader) ==
  [t |-> "response", status |-> status, body |-> body, retryAfter |-> retryAfterHeader]
SocketError == [t |-> "error", status |-> 0, body |-> EmptyBody, retryAfter |-> <<>>]
SocketTimeout == [t |-> "timeout", status |-> 0, body |-> EmptyBody, retryAfter |-> <<>>]

\* what request() resolves with: { status, headers, data }
Resolution(out) == [status |-> out.status, headers |-> out.retryAfter, data |-> out.body]

\* a call of request(): pc is "none", "pending", "resolved", "rejected" or
\* "uncaught" (the handler of the response threw; the promise stays pending)
RequestCall(out) == [pc |-> "pending", out |-> out, value |-> <<>>, err |-> NoError]

NoRequestCall == [RequestCall(SocketError) EXCEPT !.pc = "none"]

\* (variant) a response is handed to the caller whatever its status
requestResolvesAll(out) ==
  CASE out.t = "response" -> [k |-> "resolve", err |-> NoError]
    [] out.t = "error" ->
         [k |-> "reject", err |-> BrizoError("Request failed: " \o "socket hang up", <<>>, <<"NETWORK_ERROR">>, <<>>)]
    [] OTHER ->
         [k |-> "reject", err |-> BrizoError("Request timeout", <<>>, <<"TIMEOUT">>, <<>>)]

\* HttpClient.request: how its promise settles on a transport event.
\* k = "uncaught": the 'end' handler threw, the promise never settles.
request(out) ==
  CASE out.t = "response" ->
         IF out.status >= 400
           THEN LET ce == createError(out.status, out.body, out.retryAfter)
                IN  IF ce.threw THEN [k |-> "uncaught", err |-> ce.err]
                    ELSE [k |-> "reject", err |-> ce.err]
           ELSE [k |-> "resolve", err |-> NoError]
    [] out.t = "error" ->
         [k |-> "reject", err |-> BrizoError("Request failed: " \o "socket hang up", <<>>, <<"NETWORK_ERROR">>, <<>>)]
    [] OTHER ->
         [k |-> "reject", err |-> BrizoError("Request timeout", <<>>, <<"TIMEOUT">>, <<>>)]

\* HttpClient.putRaw with a Buffer: how its promise settles
putRaw(out) ==
  CASE out.t = "response" ->
         IF out.status >= 400
           THEN [k |-> "reject",
                 err |-> BrizoError("Upload failed with status " \o Str(IntChars(out.status)),
                                    <<out.status>>, <<"UPLOAD_ERROR">>, <<>>)]
           ELSE [k |-> "resolve", err |-> NoError]
    [] out.t = "error" ->
         [k |-> "reject", err |-> BrizoError("Upload failed: " \o "socket hang up", <<>>, <<"NETWORK_ERROR">>, <<>>)]
    [] OTHER ->
         [k |-> "reject", err |-> BrizoError("Upload timeout", <<>>, <<"TIMEOUT">>, <<>>)]

\* ------------------------------------------- Files.upload: resolve source
Resolved(filename, size, mimeType) ==
  [ok |-> TRUE, err |-> NoError, filename |-> filename, size |-> size, mimeType |-> mimeType]
Invalid(message) ==
  [ok |-> FALSE, err |-> ValidationError(message, <<>>), filename |-> <<>>, size |-> 0, mimeType |-> ""]

\* (variant) a Buffer is accepted without a filename
resolveSourceNamelessBuffer(options) ==
  IF options.t = "null" \/ options.file.t \in {"undefined", "null"}
    THEN Invalid("File is required")
  ELSE IF options.file.t = "string" /\ Trim(options.file.v) = <<>>
    THEN Invalid("File path cannot be empty")
  ELSE IF options.file.t = "string"
    THEN IF ~existsSync(options.file.v)
           THEN Invalid("File not found: " \o Str(options.file.v))
           ELSE LET filename == IF options.filename # <<>> THEN options.filename
                                ELSE Basename(options.file.v)
                IN  Resolved(filename, statSize(options.file.v),
                             IF options.mimeType # "" THEN options.mimeType ELSE getMimeType(filename))
  ELSE IF options.file.t = "buffer"
    THEN Resolved(options.filename, options.file.len,
                  IF options.mimeType # "" THEN options.mimeType ELSE getMimeType(options.filename))
  ELSE Invalid("File must be a file path (string) or Buffer")

\* the synchronous head of upload(), up to the presign call
resolveSource(options) ==
  IF options.t = "null" \/ options.file.t \in {"undefined", "null"}
    THEN Invalid("File is required")
  ELSE IF options.file.t = "string" /\ Trim(options.file.v) = <<>>
    THEN Invalid("File path cannot be empty")
  ELSE IF options.file.t = "string"
    THEN IF ~existsSync(options.file.v)
           THEN Invalid("File not found: " \o Str(options.file.v))
           ELSE LET filename == IF options.filename # <<>> THEN options.filename
                                ELSE Basename(options.file.v)
                IN  Resolved(filename, statSize(options.file.v),
                             IF options.mimeType # "" THEN options.mimeType ELSE getMimeType(filename))
  ELSE IF options.file.t = "buffer"
    THEN IF options.filename = <<>>
           THEN Invalid("Filename is required when uploading a Buffer")
           ELSE Resolved(options.filename, options.file.len,
                         IF options.mimeType # "" THEN options.mimeType ELSE getMimeType(options.filename))
  ELSE Invalid("File must be a file path (string) or Buffer")

\* ---------------------------------------------------------------- Metrics
\* this._cacheTTL
CacheTTL == 5000

\* the step of the clock Date.now() reads, in milliseconds
TickMs == 2500

\* A Metrics object after its constructor, with the clock it reads, the
\* get() calls made on it and the number of GET /v1/metrics requests issued.
\* invalidated: invalidateCache() was called and no get() since.
NewMetrics ==
  [cache |-> <<>>, cacheExpiry |-> 0, now |-> 0, gets |-> <<>>, requests |-> 0,
   invalidated |-> FALSE]

\* a get() call: pc "pending" (awaits its request), "resolved" or "rejected";
\* start is its const now, req the number of the request it issued (0: none),
\* cacheAtStart / expiryAtStart / first what it found when called
GetCall(pc, useCache, m, req, value) ==
  [pc |-> pc, useCache |-> useCache, start |-> m.now, req |-> req, value |-> value,
   err |-> NoError, cacheAtStart |-> m.cache, expiryAtStart |-> m.cacheExpiry,
   first |-> m.invalidated]

\* Metrics.invalidateCache
invalidateCache(m) == [m EXCEPT !.cache = <<>>, !.cacheExpiry = 0, !.invalidated = TRUE]

\* Metrics.get(options) up to its return or its await
metricsGet(m, useCache) ==
  IF useCache /\ m.cache # <<>> /\ m.now < m.cacheExpiry
    THEN [m EXCEPT !.gets = Append(@, GetCall("resolved", useCache, m, 0, m.cache)),
                   !.invalidated = FALSE]
    ELSE [m EXCEPT !.gets = Append(@, GetCall("pending", useCache, m, m.requests + 1, <<>>)),
                   !.requests = @ + 1,
                   !.invalidated = FALSE]

\* (variant) a failed request clears the cache
metricsGetResumesClearsOnFailure(m, k, out) ==
  LET r == request(out)
      call == m.gets[k]
  IN  IF r.k = "resolve"
        THEN [m EXCEPT !.cache = <<call.req>>,
                       !.cacheExpiry = call.start + CacheTTL,
                       !.gets[k].pc = "resolved",
                       !.gets[k].value = <<call.req>>]
        ELSE IF r.k = "reject"
          THEN [m EXCEPT !.cache = <<>>, !.cacheExpiry = 0,
                         !.gets[k].pc = "rejected", !.gets[k].err = r.err]
          ELSE m

\* (variant) a response is stored only when no later request's response is
\* in the cache
metricsGetResumesKeepsNewest(m, k, out) ==
  LET r == request(out)
      call == m.gets[k]
      newer == m.cache = <<>> \/ m.cache[1] < call.req
  IN  IF r.k = "resolve"
        THEN [m EXCEPT !.cache = IF newer THEN <<call.req>> ELSE @,
                       !.cacheExpiry = IF newer THEN call.start + CacheTTL ELSE @,
                       !.gets[k].pc = "resolved",
                       !.gets[k].value = <<call.req>>]
        ELSE IF r.k = "reject"
          THEN [m EXCEPT !.gets[k].pc = "rejected", !.gets[k].err = r.err]
          ELSE m

\* Metrics.get after its await: the request of call k settled with out; the
\* backend answers request n with the data n
metricsGetResumes(m, k, out) ==
  LET r == request(out)
      call == m.gets[k]
  IN  IF r.k = "resolve"
        THEN [m EXCEPT !.cache = <<call.req>>,
                       !.cacheExpiry = call.start + CacheTTL,
                       !.gets[k].pc = "resolved",
                       !.gets[k].value = <<call.req>>]
        ELSE IF r.k = "reject"
          THEN [m EXCEPT !.gets[k].pc = "rejected", !.gets[k].err = r.err]
          ELSE m

\* ---------------------------------------------------------------- Folders
\* The backend's folders: folder i is backend[i], with its name and the id of
\* its parent; the id 0 stands for "" (the root).
Folder(name, parentId) == [name |-> name, parentId |-> parentId]

\* the items of GET /v1/folders?parentId=p
childrenOf(backend, p) ==
  LET ids == SelectSeq([i \in 1..Len(backend) |-> i], LAMBDA i : backend[i].parentId = p)
  IN  [k \in 1..Len(ids) |-> [id |-> ids[k], name |-> backend[ids[k]].name]]

\* array.join("/")
RECURSIVE joinSlash(_)
joinSlash(parts) ==
  IF parts = <<>> THEN <<>>
  ELSE IF Len(parts) = 1 THEN parts[1]
  ELSE parts[1] \o <<"/">> \o joinSlash(Tail(parts))

\* one activation of fetchRecursive(parent, pathPrefix): awaiting its list
\* request (i = 0, items empty) or the fetchRecursive of items[i]
Frame(parent, pathPrefix) == [parent |-> parent, pathPrefix |-> pathPrefix, items |-> <<>>, i |-> 0]

\* A listAll call.  stack: the activations of fetchRecursive, the innermost
\* last; _errors: the property of the returned array (<<>> when not set);
\* listed and failed: the list requests issued and the ones that failed
NoListAll ==
  [pc |-> "none", stack |-> <<>>, allFolders |-> <<>>, errors |-> <<>>, _errors |-> <<>>,
   listed |-> <<>>, failed |-> <<>>]

\* Folders.listAll(parentId) up to the first await
listAll(parentId) ==
  [NoListAll EXCEPT !.pc = "running", !.stack = <<Frame(parentId, <<>>)>>, !.listed = <<parentId>>]

\* fetchRecursive: the loop over folders, from the innermost activation on,
\* up to the next list request or the return of listAll
RECURSIVE fetchLoop(_)
fetchLoop(w) ==
  LET n == Len(w.stack)
      top == w.stack[n]
  IN  IF top.i < Len(top.items)
        THEN LET folder == top.items[top.i + 1]
                 folderWithPath == [id |-> folder.id, name |-> folder.name,
                                    path |-> Append(top.pathPrefix, folder.name),
                                    pathString |-> joinSlash(Append(top.pathPrefix, folder.name))]
             IN  [w EXCEPT !.allFolders = Append(@, folderWithPath),
                           !.stack = Append([@ EXCEPT ![n].i = top.i + 1],
                                            Frame(folder.id, folderWithPath.path)),
                           !.listed = Append(@, folder.id)]
        ELSE IF n = 1
          THEN [w EXCEPT !.stack = <<>>,
                         !._errors = IF Len(w.errors) > 0 THEN <<w.errors>> ELSE <<>>,
                         !.pc = "resolved"]
          ELSE fetchLoop([w EXCEPT !.stack = SubSeq(@, 1, n - 1)])

\* fetchRecursive after await this.list(...): the request settled with out.
\* hasItems: the response carries an items array
fetchResumes(w, backend, out, hasItems) ==
  LET r == request(out)
      n == Len(w.stack)
      top == w.stack[n]
  IN  CASE r.k = "resolve" ->
             fetchLoop([w EXCEPT !.stack[n].items =
                                   IF hasItems THEN childrenOf(backend, top.parent) ELSE <<>>])
        [] r.k = "reject" ->
             LET e == [parentId |-> top.parent, error |-> r.err.message]
             IN  fetchLoop([w EXCEPT !.errors = Append(@, e), !.failed = Append(@, e),
                                     !.stack[n].items = <<>>])
        [] OTHER -> [w EXCEPT !.pc = "hung", !.failed = Append(@, [parentId |-> top.parent, error |-> r.err.message])]

\* path.split("/")
RECURSIVE splitSlash(_)
splitSlash(cs) ==
  IF \A k \in 1..Len(cs) : cs[k] # "/" THEN <<cs>>
  ELSE LET at == CHOOSE k \in 1..Len(cs) : cs[k] = "/" /\ \A j \in 1..(k - 1) : cs[j] # "/"
       IN  <<SubSeq(cs, 1, at - 1)>> \o splitSlash(SubSeq(cs, at + 1, Len(cs)))

\* p.trim() is a non-empty string
trimTruthy(p) == \E k \in 1..Len(p) : p[k] # " "

\* path.split("/").filter((p) => p.trim())
pathParts(path) == SelectSeq(splitSlash(path), trimTruthy)

\* find with === on the names as they are
findFolderExact(items, part) ==
  LET hits == SelectSeq(items, LAMBDA f : f.name = part)
  IN  IF hits = <<>> THEN <<>> ELSE <<hits[1]>>

\* items?.find((f) => f.name.toLowerCase() === part.toLowerCase()): <<>> for
\* undefined
findFolder(items, part) ==
  LET hits == SelectSeq(items, LAMBDA f : toLowerCase(f.name) = toLowerCase(part))
  IN  IF hits = <<>> THEN <<>> ELSE <<hits[1]>>

\* A createPath call.  pc: "listing" (awaits this.list), "creating" (awaits
\* this.create), "resolved", "rejected" or "hung"; k: the index of the part
\* of the loop; steps: for every list response, what the call did with it;
\* alone: every earlier call had settled when this one was made
CreatePathCall(path, alone) ==
  [pc |-> "listing", path |-> path, parts |-> pathParts(path), k |-> 1, parentId |-> 0,
   lastFolder |-> <<>>, err |-> NoError, steps |-> <<>>, alone |-> alone]

\* Folders.createPath(path) up to the first await
createPath(path, alone) ==
  LET c == CreatePathCall(path, alone)
  IN  IF path = <<>>
        THEN [c EXCEPT !.pc = "rejected", !.err = ValidationError("Path is required", <<>>)]
        ELSE IF Len(c.parts) = 0
          THEN [c EXCEPT !.pc = "rejected", !.err = ValidationError("Invalid path", <<>>)]
          ELSE c

\* createPath: the end of the loop body with lastFolder set
nextPart(c, folder) ==
  [c EXCEPT !.lastFolder = <<folder>>,
            !.parentId = folder.id,
            !.k = c.k + 1,
            !.pc = IF c.k < Len(c.parts) THEN "listing" ELSE "resolved"]

\* (variant) the segment is created whatever the listing holds
createPathListedAlwaysCreates(c, backend, out, hasItems) ==
  LET r == request(out)
      part == c.parts[c.k]
      items == IF hasItems THEN childrenOf(backend, c.parentId) ELSE <<>>
      step == [part |-> part, parentId |-> c.parentId, items |-> items,
               reused |-> <<>>, created |-> TRUE]
  IN  CASE r.k = "resolve" -> [c EXCEPT !.steps = Append(@, step), !.pc = "creating"]
        [] r.k = "reject" -> [c EXCEPT !.pc = "rejected", !.err = r.err]
        [] OTHER -> [c EXCEPT !.pc = "hung"]

\* createPath after await this.list({ parentId }): the request settled with out
createPathListed(c, backend, out, hasItems) ==
  LET r == request(out)
      part == c.parts[c.k]
      items == IF hasItems THEN childrenOf(backend, c.parentId) ELSE <<>>
      existingFolder == findFolder(items, part)
      step == [part |-> part, parentId |-> c.parentId, items |-> items,
               reused |-> existingFolder, created |-> existingFolder = <<>>]
  IN  CASE r.k = "resolve" ->
             IF existingFolder # <<>>
               THEN nextPart([c EXCEPT !.steps = Append(@, step)], existingFolder[1])
               ELSE [c EXCEPT !.steps = Append(@, step), !.pc = "creating"]
        [] r.k = "reject" -> [c EXCEPT !.pc = "rejected", !.err = r.err]
        [] OTHER -> [c EXCEPT !.pc = "hung"]

\* createPath after await this.create({ name: part, parentId }): the request
\* settled with out; the backend gave a created folder the id newId
createPathCreated(c, newId, out) ==
  LET r == request(out)
  IN  CASE r.k = "resolve" -> nextPart(c, [id |-> newId, name |-> c.parts[c.k]])
        [] r.k = "reject" -> [c EXCEPT !.pc = "rejected", !.err = r.err]
        [] OTHER -> [c EXCEPT !.pc = "hung"]

\* POST /v1/folders at the backend
backendCreate(backend, name, parentId) == Append(backend, Folder(name, parentId))

\* No folders, no call
NoFolders == [backend |-> <<>>, walk |-> NoListAll, calls |-> <<>>, posts |-> <<>>]

\* ------------------------------------------------------------------ state
VARIABLES
  bpc,          \* the caller: "idle", "direct" (one upload() call), or uploadBatch:
                \* "chunking", "awaiting", "returned", "rejected"
  files,        \* the requests passed (upload call i serves files[i])
  options,      \* uploadBatch's options
  concurrency,  \* uploadBatch's local
  chunks,       \* uploadBatch's local: sequences of indices into files
  loopI,        \* the index i of the partitioning loop
  cur,          \* the chunk whose Promise.all is awaited (0: none yet)
  join,         \* that Promise.all: "pending", "fulfilled", "rejected"
  batchErr,     \* the error uploadBatch rejected with
  results,      \* uploadBatch's result object
  completed,    \* uploadBatch's counter
  calls,        \* per upload() call: position, locals, outcome, history
  tasks,        \* per uploadFile call: its promise
  invoked,      \* per item: how many times upload() was invoked for it
  mq,           \* the microtask queue: item indices, 0 for uploadBatch itself
  nextKey,      \* the backend: the next transfer key / upload URL it grants
  fcLog,        \* the invocations of options.onFileComplete
  progLog,      \* the invocations of options.onProgress (of the batch)
  mapper,       \* one call of HttpClient._createError: arguments and outcome
  xfer,         \* one call of HttpClient.request: the transport event and the outcome
  metrics,      \* a Metrics object, its get() calls, the clock and the backend
  folders       \* the backend's folders, a listAll call and createPath calls

vars == <<bpc, files, options, concurrency, chunks, loopI, cur, join, batchErr,
          results, completed, calls, tasks, invoked, mq, nextKey, fcLog, progLog,
          mapper, xfer, metrics, folders>>

\* the state of the calls of single functions
unitVars == <<mapper, xfer, metrics, folders>>

batchVars == <<options, concurrency, chunks, loopI, cur, join, batchErr,
               results, completed, tasks, fcLog, progLog>>

Items == 1..MaxFiles

Ev(e, v) == [e |-> e, v |-> v]

\* a request handed to the transport by upload()
Sent(op, url, key, filename, size, type, folderId) ==
  [op |-> op, url |-> url, key |-> key, filename |-> filename, size |-> size,
   type |-> type, folderId |-> folderId]

NoCall ==
  [pc |-> "none", filename |-> <<>>, size |-> 0, mimeType |-> "", url |-> 0, key |-> 0,
   file |-> <<>>, err |-> NoError, trace |-> <<>>, sent |-> <<>>]

NoTask == [state |-> "none", err |-> NoError]

Settled(c) == c.pc \in {"resolved", "rejected"}

Reject(c, e) ==
  [c EXCEPT !.pc = "rejected", !.err = e, !.trace = Append(@, Ev("reject", 0))]

\* the file record the backend registers for a commit request
FileRecord(body) ==
  [key |-> body.key, originalName |-> Str(body.filename), size |-> body.size,
   mimeType |-> body.type, folderId |-> body.folderId]

\* ------------------------------------------------------ inputs of a run
\* a callback is passed or not
Given(cb) == cb # "none"

\* the callback throws when it is called with the first argument pct
Throws(cb, pct) == cb = "throws" \/ (cb = "throws100" /\ pct = 100)

DirectRequests ==
  { NullReq,
    Req(FUndefined, <<>>, "", "", "none"),
    Req(FNull, NameB, "", "", "returns"),
    Req(FString(<<>>), <<>>, "", "", "none"),
    Req(FString(<<" ">>), <<>>, "", "", "returns"),
    Req(FString(PathMissing), <<>>, "", "", "returns"),
    Req(FString(PathA), <<>>, "", "", "none"),
    Req(FString(PathA), NameB, "", "f1", "returns"),
    Req(FString(PathA), <<>>, "", "", "throws"),
    Req(FBuffer(10), <<>>, "text/plain", "", "returns"),
    Req(FBuffer(10), NameB, "", "", "throws100"),
    Req(FBuffer(0), NameB, "image/x", "f1", "none"),
    Req(FNumber, NameB, "", "", "returns"),
    Req(FBuffer(10), NameHello, "", "", "none"),
    Req(FBuffer(10), NameUpper, "", "", "none"),
    Req(FBuffer(10), NameUnknown, "", "", "none"),
    Req(FString(PathA), NameConstructor, "", "", "none") }

BatchRequests ==
  { NullReq,
    Req(FString(PathA), <<>>, "", "", "returns"),
    Req(FBuffer(10), <<>>, "", "f1", "none") }

\* <<onFileComplete, onProgress>>
BatchCallbacks ==
  { <<"none", "none">>, <<"returns", "returns">>, <<"throws", "returns">>, <<"returns", "throws">> }

BatchOptions ==
  { [concurrency |-> k, onFileComplete |-> cb[1], onProgress |-> cb[2]] :
      k \in (-1)..MaxConcurrency, cb \in BatchCallbacks }

LimitBody == Body(JStr(<<"S", "t", "o", "r", "a", "g", "e", " ", "L", "i", "m", "i", "t">>), JUndefined, <<>>)

\* what the network may do to a request of a direct upload() call ...
PresignOutcomes ==
  { Response(200, EmptyBody, <<>>),
    Response(403, LimitBody, <<>>),
    Response(429, EmptyBody, <<"1", "2", "0">>),
    Response(403, Body(JNum(7), JUndefined, <<>>), <<>>),
    SocketError,
    SocketTimeout }

PutOutcomes ==
  { Response(200, EmptyBody, <<>>), Response(403, EmptyBody, <<>>), SocketError, SocketTimeout }

CommitOutcomes ==
  { Response(201, EmptyBody, <<>>),
    Response(400, Body(JUndefined, JStr(<<"b", "a", "d">>), <<>>), <<>>),
    Response(403, Body(JNum(7), JUndefined, <<>>), <<>>),
    SocketError,
    SocketTimeout }

\* ... and to a request of an upload() call made by uploadBatch
BatchPresignOutcomes == {Response(200, EmptyBody, <<>>), Response(403, LimitBody, <<>>)}

BatchPutOutcomes == {Response(200, EmptyBody, <<>>), SocketTimeout}

BatchCommitOutcomes ==
  {Response(201, EmptyBody, <<>>), Response(400, Body(JUndefined, JStr(<<"b", "a", "d">>), <<>>), <<>>)}

\* ------------------------------------------------------- Files.upload
\* the call's state after the synchronous head of upload(options)
uploadStart(opts) ==
  LET r == resolveSource(opts)
  IN  IF r.ok
        THEN [NoCall EXCEPT
                !.pc = "presign", !.filename = r.filename, !.size = r.size,
                !.mimeType = r.mimeType,
                !.trace = <<Ev("resolved", 0), Ev("presign", 0)>>,
                !.sent = <<Sent("presign", 0, 0, r.filename, r.size, r.mimeType, opts.folderId)>>]
        ELSE Reject(NoCall, r.err)

UploadDetails(c) == <<[filename |-> c.filename, size |-> c.size, key |-> c.key]>>

\* (variant) the error of a failed presign call is swallowed and the transfer
\* goes on without a grant
afterPresignIgnoresFailure(c, opts, out, grant) ==
  LET ok == request(out).k = "resolve"
      c1 == [c EXCEPT !.url = IF ok THEN grant ELSE 0, !.key = IF ok THEN grant ELSE 0,
                      !.trace = Append(@, Ev(IF ok THEN "presign_ok" ELSE "presign_fail", grant))]
  IN  [c1 EXCEPT !.pc = "put",
                 !.trace = Append(@, Ev("put", c1.url)),
                 !.sent = Append(@, Sent("put", c1.url, 0, <<>>, c1.size, c1.mimeType, ""))]

\* (variant) the upload URL is kept from the first grant and used again
afterPresignCachedUrl(c, opts, out, grant) ==
  LET r == request(out)
      c1 == [c EXCEPT !.url = 1, !.key = grant, !.trace = Append(@, Ev("presign_ok", grant))]
  IN  IF r.k # "resolve"
        THEN Reject([c EXCEPT !.trace = Append(@, Ev("presign_fail", 0))], r.err)
      ELSE IF Throws(opts.onProgress, 0)
        THEN Reject(c1, UploadError("Failed to upload file: " \o "sink failed", UploadDetails(c1)))
      ELSE [c1 EXCEPT !.pc = "put",
                      !.trace = Append(@, Ev("put", c1.url)),
                      !.sent = Append(@, Sent("put", c1.url, 0, <<>>, c1.size, c1.mimeType, ""))]

\* (variant) an exception of progress(0) is dropped and the PUT is issued
afterPresignSinkContained(c, opts, out, grant) ==
  LET r == request(out)
      c1 == [c EXCEPT !.url = grant, !.key = grant,
                      !.trace = Append(@, Ev("presign_ok", grant))]
      c2 == IF Given(opts.onProgress)
              THEN [c1 EXCEPT !.trace = Append(@, Ev("progress", 0))] ELSE c1
  IN  IF r.k = "uncaught"
        THEN [c EXCEPT !.pc = "hung", !.trace = Append(@, Ev("presign_fail", 0))]
      ELSE IF r.k = "reject"
        THEN Reject([c EXCEPT !.trace = Append(@, Ev("presign_fail", 0))], r.err)
      ELSE [c2 EXCEPT !.pc = "put",
                      !.trace = Append(@, Ev("put", c2.url)),
                      !.sent = Append(@, Sent("put", c2.url, 0, <<>>, c2.size, c2.mimeType, ""))]

\* the presign call settled with transport event out; grant is what the
\* backend hands out on success
afterPresign(c, opts, out, grant) ==
  LET r == request(out)
      c1 == [c EXCEPT !.url = grant, !.key = grant,
                      !.trace = Append(@, Ev("presign_ok", grant))]
      c2 == IF Given(opts.onProgress)
              THEN [c1 EXCEPT !.trace = Append(@, Ev("progress", 0))] ELSE c1
  IN  IF r.k = "uncaught"
        THEN [c EXCEPT !.pc = "hung", !.trace = Append(@, Ev("presign_fail", 0))]
      ELSE IF r.k = "reject"
        THEN Reject([c EXCEPT !.trace = Append(@, Ev("presign_fail", 0))], r.err)
      ELSE IF Throws(opts.onProgress, 0)
        THEN Reject(c2, UploadError("Failed to upload file: " \o "sink failed", UploadDetails(c2)))
      ELSE [c2 EXCEPT !.pc = "put",
                      !.trace = Append(@, Ev("put", c2.url)),
                      !.sent = Append(@, Sent("put", c2.url, 0, <<>>, c2.size, c2.mimeType, ""))]

\* (variant) the commit is issued whatever became of the PUT
afterPutIgnoresFailure(c, opts, out) ==
  LET ok == putRaw(out).k = "resolve"
      c1 == [c EXCEPT !.trace = Append(@, Ev(IF ok THEN "put_ok" ELSE "put_fail", c.url))]
  IN  [c1 EXCEPT !.pc = "commit",
                 !.trace = Append(@, Ev("commit", c1.key)),
                 !.sent = Append(@, Sent("commit", 0, c1.key, c1.filename, c1.size,
                                         c1.mimeType, opts.folderId))]

\* (variant) a failed PUT is sent once more to the same URL
afterPutRetriesOnce(c, opts, out) ==
  LET ok == putRaw(out).k = "resolve"
      puts == {k \in 1..Len(c.sent) : c.sent[k].op = "put"}
      c1 == [c EXCEPT !.trace = Append(@, Ev(IF ok THEN "put_ok" ELSE "put_fail", c.url))]
  IN  IF ok
        THEN [c1 EXCEPT !.pc = "commit",
                        !.trace = Append(@, Ev("commit", c1.key)),
                        !.sent = Append(@, Sent("commit", 0, c1.key, c1.filename, c1.size,
                                                c1.mimeType, opts.folderId))]
      ELSE IF Cardinality(puts) < 2
        THEN [c1 EXCEPT !.trace = Append(@, Ev("put", c.url)),
                        !.sent = Append(@, Sent("put", c.url, 0, <<>>, c.size, c.mimeType, ""))]
      ELSE Reject(c1, UploadError("Failed to upload file: " \o putRaw(out).err.message, UploadDetails(c)))

\* (variant) the commit names the file by options.filename, not by the resolved filename
afterPutRawFilename(c, opts, out) ==
  LET r == putRaw(out)
      c1 == [c EXCEPT !.trace = Append(@, Ev("put_ok", c.url))]
      c2 == IF Given(opts.onProgress)
              THEN [c1 EXCEPT !.trace = Append(@, Ev("progress", 100))] ELSE c1
  IN  IF r.k = "reject"
        THEN Reject([c EXCEPT !.trace = Append(@, Ev("put_fail", c.url))],
                    UploadError("Failed to upload file: " \o r.err.message, UploadDetails(c)))
      ELSE IF Throws(opts.onProgress, 100)
        THEN Reject(c2, UploadError("Failed to upload file: " \o "sink failed", UploadDetails(c2)))
      ELSE [c2 EXCEPT !.pc = "commit",
                      !.trace = Append(@, Ev("commit", c2.key)),
                      !.sent = Append(@, Sent("commit", 0, c2.key, opts.filename, c2.size,
                                              c2.mimeType, opts.folderId))]

\* (variant) the error of putRaw is rethrown as it is
afterPutRethrows(c, opts, out) ==
  LET r == putRaw(out)
      c1 == [c EXCEPT !.trace = Append(@, Ev("put_ok", c.url))]
      c2 == IF Given(opts.onProgress)
              THEN [c1 EXCEPT !.trace = Append(@, Ev("progress", 100))] ELSE c1
  IN  IF r.k = "reject"
        THEN Reject([c EXCEPT !.trace = Append(@, Ev("put_fail", c.url))], r.err)
      ELSE IF Throws(opts.onProgress, 100)
        THEN Reject(c2, UploadError("Failed to upload file: " \o "sink failed", UploadDetails(c2)))
      ELSE [c2 EXCEPT !.pc = "commit",
                      !.trace = Append(@, Ev("commit", c2.key)),
                      !.sent = Append(@, Sent("commit", 0, c2.key, c2.filename, c2.size,
                                              c2.mimeType, opts.folderId))]

\* (variant) progress(100) is reported only after the commit request was issued
afterPutLateProgress(c, opts, out) ==
  LET r == putRaw(out)
      c1 == [c EXCEPT !.trace = Append(@, Ev("put_ok", c.url))]
      c2 == [c1 EXCEPT !.pc = "commit",
                       !.trace = Append(@, Ev("commit", c1.key)),
                       !.sent = Append(@, Sent("commit", 0, c1.key, c1.filename, c1.size,
                                               c1.mimeType, opts.folderId))]
  IN  IF r.k = "reject"
        THEN Reject([c EXCEPT !.trace = Append(@, Ev("put_fail", c.url))],
                    UploadError("Failed to upload file: " \o r.err.message, UploadDetails(c)))
      ELSE IF Given(opts.onProgress)
        THEN [c2 EXCEPT !.trace = Append(@, Ev("progress", 100))]
      ELSE c2

\* (variant) progress(100) is reported whether or not the PUT succeeded
afterPutAlwaysReportsEnd(c, opts, out) ==
  LET r == putRaw(out)
      c1 == [c EXCEPT !.trace = Append(@, Ev(IF r.k = "reject" THEN "put_fail" ELSE "put_ok", c.url))]
      c2 == IF Given(opts.onProgress)
              THEN [c1 EXCEPT !.trace = Append(@, Ev("progress", 100))] ELSE c1
  IN  IF r.k = "reject"
        THEN Reject(c2, UploadError("Failed to upload file: " \o r.err.message, UploadDetails(c)))
      ELSE IF Throws(opts.onProgress, 100)
        THEN Reject(c2, UploadError("Failed to upload file: " \o "sink failed", UploadDetails(c2)))
      ELSE [c2 EXCEPT !.pc = "commit",
                      !.trace = Append(@, Ev("commit", c2.key)),
                      !.sent = Append(@, Sent("commit", 0, c2.key, c2.filename, c2.size,
                                              c2.mimeType, opts.folderId))]

\* (variant) the UploadError takes the status code and the code of the
\* transport's error
afterPutKeepsFault(c, opts, out) ==
  LET r == putRaw(out)
      c1 == [c EXCEPT !.trace = Append(@, Ev("put_ok", c.url))]
      c2 == IF Given(opts.onProgress)
              THEN [c1 EXCEPT !.trace = Append(@, Ev("progress", 100))] ELSE c1
  IN  IF r.k = "reject"
        THEN Reject([c EXCEPT !.trace = Append(@, Ev("put_fail", c.url))],
                    [UploadError("Failed to upload file: " \o r.err.message, UploadDetails(c))
                       EXCEPT !.statusCode = r.err.statusCode, !.code = r.err.code])
      ELSE IF Throws(opts.onProgress, 100)
        THEN Reject(c2, UploadError("Failed to upload file: " \o "sink failed", UploadDetails(c2)))
      ELSE [c2 EXCEPT !.pc = "commit",
                      !.trace = Append(@, Ev("commit", c2.key)),
                      !.sent = Append(@, Sent("commit", 0, c2.key, c2.filename, c2.size,
                                              c2.mimeType, opts.folderId))]

\* the PUT settled
afterPut(c, opts, out) ==
  LET r == putRaw(out)
      c1 == [c EXCEPT !.trace = Append(@, Ev("put_ok", c.url))]
      c2 == IF Given(opts.onProgress)
              THEN [c1 EXCEPT !.trace = Append(@, Ev("progress", 100))] ELSE c1
  IN  IF r.k = "reject"
        THEN Reject([c EXCEPT !.trace = Append(@, Ev("put_fail", c.url))],
                    UploadError("Failed to upload file: " \o r.err.message, UploadDetails(c)))
      ELSE IF Throws(opts.onProgress, 100)
        THEN Reject(c2, UploadError("Failed to upload file: " \o "sink failed", UploadDetails(c2)))
      ELSE [c2 EXCEPT !.pc = "commit",
                      !.trace = Append(@, Ev("commit", c2.key)),
                      !.sent = Append(@, Sent("commit", 0, c2.key, c2.filename, c2.size,
                                              c2.mimeType, opts.folderId))]

\* (variant) upload() returns a record although the commit call failed
afterCommitIgnoresFailure(c, out) ==
  LET ok == request(out).k = "resolve"
  IN  [c EXCEPT !.pc = "resolved", !.file = <<FileRecord(c.sent[Len(c.sent)])>>,
                !.trace = Append(Append(@, Ev(IF ok THEN "commit_ok" ELSE "commit_fail", c.key)),
                                 Ev("resolve", c.key))]

\* the commit call settled
afterCommit(c, out) ==
  LET r == request(out)
  IN  IF r.k = "uncaught"
        THEN [c EXCEPT !.pc = "hung", !.trace = Append(@, Ev("commit_fail", c.key))]
      ELSE IF r.k = "reject"
        THEN Reject([c EXCEPT !.trace = Append(@, Ev("commit_fail", c.key))], r.err)
      ELSE [c EXCEPT !.pc = "resolved", !.file = <<FileRecord(c.sent[Len(c.sent)])>>,
                     !.trace = Append(Append(@, Ev("commit_ok", c.key)), Ev("resolve", c.key))]

\* A transport event for call i leaves the call as c2; the uploadFile that
\* awaits a settled call is resumed by a microtask.
Deliver(i, c2) ==
  /\ calls' = [calls EXCEPT ![i] = c2]
  /\ mq' = IF Settled(c2) /\ tasks[i].state = "pending" THEN Append(mq, i) ELSE mq

PresignSettles(i) ==
  /\ mq = <<>>
  /\ calls[i].pc = "presign"
  /\ \E out \in (IF bpc = "direct" THEN PresignOutcomes ELSE BatchPresignOutcomes) :
       /\ Deliver(i, afterPresign(calls[i], files[i], out, nextKey))
       /\ nextKey' = IF request(out).k = "resolve" THEN nextKey + 1 ELSE nextKey
  /\ UNCHANGED <<bpc, files, batchVars, invoked>>
  /\ UNCHANGED unitVars

PutSettles(i) ==
  /\ mq = <<>>
  /\ calls[i].pc = "put"
  /\ \E out \in (IF bpc = "direct" THEN PutOutcomes ELSE BatchPutOutcomes) :
       Deliver(i, afterPut(calls[i], files[i], out))
  /\ UNCHANGED <<bpc, files, batchVars, invoked, nextKey>>
  /\ UNCHANGED unitVars

CommitSettles(i) ==
  /\ mq = <<>>
  /\ calls[i].pc = "commit"
  /\ \E out \in (IF bpc = "direct" THEN CommitOutcomes ELSE BatchCommitOutcomes) : Deliver(i, afterCommit(calls[i], out))
  /\ UNCHANGED <<bpc, files, batchVars, invoked, nextKey>>
  /\ UNCHANGED unitVars

\* a caller invokes upload(req) directly
UploadCall ==
  /\ bpc = "idle"
  /\ \E req \in DirectRequests :
       /\ files' = <<req>>
       /\ calls' = [calls EXCEPT ![1] = uploadStart(req)]
  /\ invoked' = [invoked EXCEPT ![1] = @ + 1]
  /\ bpc' = "direct"
  /\ UNCHANGED <<batchVars, mq, nextKey>>
  /\ UNCHANGED unitVars

\* ---------------------------------------------------- Files.uploadBatch
Max(a, b) == IF a >= b THEN a ELSE b
Min(a, b) == IF a <= b THEN a ELSE b

\* (variant) the end index is taken as inclusive
sliceInclusive(n, start, end) ==
  LET rel(x) == IF x < 0 THEN Max(n + x, 0) ELSE Min(x, n)
      from == rel(start)
      to == rel(end + 1)
  IN  [j \in 1..Max(to - from, 0) |-> from + j]

\* Array.prototype.slice(start, end) of an array of length n, as the
\* sequence of the (1-based) indices it selects
slice(n, start, end) ==
  LET rel(x) == IF x < 0 THEN Max(n + x, 0) ELSE Min(x, n)
      from == rel(start)
      to == rel(end)
  IN  [j \in 1..Max(to - from, 0) |-> from + j]

InChunk(i, chunk) == \E k \in 1..Len(chunk) : chunk[k] = i

\* fileOptions.filename || fileOptions.file
Label(req) == IF req.filename # <<>> THEN FString(req.filename) ELSE req.file

\* Math.round((n / total) * 100)
RoundPercent(n, total) == (200 * n + total) \div (2 * total)

CallbackError == JsError("CallbackError", "callback failed")

\* (variant) a falsy options.concurrency is not replaced by the default
UploadBatchCallNoDefault ==
  /\ bpc = "idle"
  /\ \E n \in 0..MaxFiles :
       \E fs \in [1..n -> BatchRequests], opt \in BatchOptions :
         /\ files' = fs
         /\ options' = opt
         /\ concurrency' = opt.concurrency
  /\ bpc' = "chunking"
  /\ chunks' = <<>>
  /\ loopI' = 0
  /\ results' = [successful |-> <<>>, failed |-> <<>>]
  /\ completed' = 0
  /\ UNCHANGED <<cur, join, batchErr, calls, tasks, invoked, mq, nextKey, fcLog, progLog>>
  /\ UNCHANGED unitVars

\* (variant) a concurrency below 1 is replaced by the default
UploadBatchCallValidates ==
  /\ bpc = "idle"
  /\ \E n \in 0..MaxFiles :
       \E fs \in [1..n -> BatchRequests], opt \in BatchOptions :
         /\ files' = fs
         /\ options' = opt
         /\ concurrency' = IF opt.concurrency < 1 THEN DefaultConcurrency ELSE opt.concurrency
  /\ bpc' = "chunking"
  /\ chunks' = <<>>
  /\ loopI' = 0
  /\ results' = [successful |-> <<>>, failed |-> <<>>]
  /\ completed' = 0
  /\ UNCHANGED <<cur, join, batchErr, calls, tasks, invoked, mq, nextKey, fcLog, progLog>>
  /\ UNCHANGED unitVars

\* uploadBatch is called
UploadBatchCall ==
  /\ bpc = "idle"
  /\ \E n \in 0..MaxFiles :
       \E fs \in [1..n -> BatchRequests], opt \in BatchOptions :
         /\ files' = fs
         /\ options' = opt
         /\ concurrency' = IF opt.concurrency = 0 THEN DefaultConcurrency ELSE opt.concurrency
  /\ bpc' = "chunking"
  /\ chunks' = <<>>
  /\ loopI' = 0
  /\ results' = [successful |-> <<>>, failed |-> <<>>]
  /\ completed' = 0
  /\ UNCHANGED <<cur, join, batchErr, calls, tasks, invoked, mq, nextKey, fcLog, progLog>>
  /\ UNCHANGED unitVars

\* one iteration of the loop that fills chunks
ChunkLoop ==
  /\ bpc = "chunking"
  /\ loopI < Len(files)
  /\ Len(chunks) < MaxChunks
  /\ chunks' = Append(chunks, slice(Len(files), loopI, loopI + concurrency))
  /\ loopI' = loopI + concurrency
  /\ UNCHANGED <<bpc, files, options, concurrency, cur, join, batchErr, results,
                 completed, calls, tasks, invoked, mq, nextKey, fcLog, progLog>>
  /\ UNCHANGED unitVars

\* chunk.map(uploadFile) and Promise.all of the result: every uploadFile of the
\* chunk runs up to its await of upload(), which has run its synchronous head
StartChunk(c) ==
  LET chunk == chunks[c]
      early == SelectSeq(chunk, LAMBDA i : Settled(uploadStart(files[i])))
  IN  /\ cur' = c
      /\ calls' = [i \in Items |-> IF InChunk(i, chunk) THEN uploadStart(files[i]) ELSE calls[i]]
      /\ tasks' = [i \in Items |-> IF InChunk(i, chunk)
                                     THEN [state |-> "pending", err |-> NoError] ELSE tasks[i]]
      /\ invoked' = [i \in Items |-> IF InChunk(i, chunk) THEN invoked[i] + 1 ELSE invoked[i]]
      /\ join' = IF chunk = <<>> THEN "fulfilled" ELSE "pending"
      /\ mq' = (IF mq = <<>> THEN <<>> ELSE Tail(mq)) \o early \o (IF chunk = <<>> THEN <<0>> ELSE <<>>)

\* the partitioning loop ends and the loop over the chunks begins
ChunkLoopExit ==
  /\ bpc = "chunking"
  /\ loopI >= Len(files)
  /\ IF chunks = <<>>
       THEN /\ bpc' = "returned"
            /\ UNCHANGED <<cur, calls, tasks, invoked, join, mq>>
       ELSE /\ bpc' = "awaiting"
            /\ StartChunk(1)
  /\ UNCHANGED <<files, options, concurrency, chunks, loopI, batchErr, results,
                 completed, nextKey, fcLog, progLog>>
  /\ UNCHANGED unitVars

\* (variant) the entry is put in front of the list (unshift for push)
pushResultUnshift(res, i, c, req) ==
  IF c.pc = "resolved"
    THEN [res EXCEPT !.successful =
            <<[item |-> i, file |-> c.file[1], label |-> Label(req)]>> \o @]
    ELSE [res EXCEPT !.failed =
            <<[item |-> i, label |-> Label(req), error |-> c.err.message]>> \o @]

\* (variant) a failure is not pushed
pushResultDropsFailure(res, i, c, req) ==
  IF c.pc = "resolved"
    THEN [res EXCEPT !.successful =
            Append(@, [item |-> i, file |-> c.file[1], label |-> Label(req)])]
    ELSE res

\* results.successful.push(...) in the try block, results.failed.push(...) in
\* the catch block of uploadFile, for item i whose upload() call ended as c
pushResult(res, i, c, req) ==
  IF c.pc = "resolved"
    THEN [res EXCEPT !.successful =
            Append(@, [item |-> i, file |-> c.file[1], label |-> Label(req)])]
    ELSE [res EXCEPT !.failed =
            Append(@, [item |-> i, label |-> Label(req), error |-> c.err.message])]

\* (variant) an exception of a callback is caught and dropped
uploadFileContainsCallbacks(i) ==
  LET c == calls[i]
      req == files[i]
      ok == c.pc = "resolved"
      s0 == [results |-> results, completed |-> completed, fcLog |-> fcLog,
             progLog |-> progLog, task |-> [state |-> "fulfilled", err |-> NoError]]
      s1 == [s0 EXCEPT !.results = pushResult(@, i, c, req), !.completed = @ + 1]
      s2 == IF Given(options.onFileComplete)
              THEN [s1 EXCEPT !.fcLog =
                      Append(@, [item |-> i, file |-> c.file,
                                 error |-> IF ok THEN <<>> ELSE <<c.err>>])]
              ELSE s1
      s3 == IF Given(options.onProgress)
              THEN [s2 EXCEPT !.progLog =
                      Append(@, <<RoundPercent(s2.completed, Len(files)), s2.completed, Len(files)>>)]
              ELSE s2
      Throw(s, e) == [s EXCEPT !.task = [state |-> "rejected", err |-> e]]
  IN  IF ~ok /\ req.t = "null"
        THEN Throw(s0, JsError("TypeError", "Cannot read properties of null (reading 'filename')"))
      ELSE s3

\* (variant) onProgress is passed the count taken before the increment
uploadFileStaleCount(i) ==
  LET c == calls[i]
      req == files[i]
      ok == c.pc = "resolved"
      s0 == [results |-> results, completed |-> completed, fcLog |-> fcLog,
             progLog |-> progLog, task |-> [state |-> "fulfilled", err |-> NoError]]
      s1 == [s0 EXCEPT !.results = pushResult(@, i, c, req), !.completed = @ + 1]
      s2 == IF Given(options.onFileComplete)
              THEN [s1 EXCEPT !.fcLog =
                      Append(@, [item |-> i, file |-> c.file,
                                 error |-> IF ok THEN <<>> ELSE <<c.err>>])]
              ELSE s1
      s3 == IF Given(options.onProgress)
              THEN [s2 EXCEPT !.progLog =
                      Append(@, <<RoundPercent(s0.completed, Len(files)), s0.completed, Len(files)>>)]
              ELSE s2
      Throw(s, e) == [s EXCEPT !.task = [state |-> "rejected", err |-> e]]
  IN  IF ~ok /\ req.t = "null"
        THEN Throw(s0, JsError("TypeError", "Cannot read properties of null (reading 'filename')"))
      ELSE IF Throws(options.onFileComplete, 0) THEN Throw(s2, CallbackError)
      ELSE IF Throws(options.onProgress, RoundPercent(s2.completed, Len(files))) THEN Throw(s3, CallbackError)
      ELSE s3

\* The body of uploadFile after its await of upload() for item i
uploadFile(i) ==
  LET c == calls[i]
      req == files[i]
      ok == c.pc = "resolved"
      s0 == [results |-> results, completed |-> completed, fcLog |-> fcLog,
             progLog |-> progLog, task |-> [state |-> "fulfilled", err |-> NoError]]
      s1 == [s0 EXCEPT !.results = pushResult(@, i, c, req), !.completed = @ + 1]
      s2 == IF Given(options.onFileComplete)
              THEN [s1 EXCEPT !.fcLog =
                      Append(@, [item |-> i, file |-> c.file,
                                 error |-> IF ok THEN <<>> ELSE <<c.err>>])]
              ELSE s1
      s3 == IF Given(options.onProgress)
              THEN [s2 EXCEPT !.progLog =
                      Append(@, <<RoundPercent(s2.completed, Len(files)), s2.completed, Len(files)>>)]
              ELSE s2
      Throw(s, e) == [s EXCEPT !.task = [state |-> "rejected", err |-> e]]
  IN  IF ~ok /\ req.t = "null"
        THEN Throw(s0, JsError("TypeError", "Cannot read properties of null (reading 'filename')"))
      ELSE IF Throws(options.onFileComplete, 0) THEN Throw(s2, CallbackError)
      ELSE IF Throws(options.onProgress, RoundPercent(s2.completed, Len(files))) THEN Throw(s3, CallbackError)
      ELSE s3

\* (variant) the join settles with the first task that settles
promiseAllAny(j, ts, chunk) ==
  IF j # "pending" THEN j
  ELSE IF \E k \in 1..Len(chunk) : ts[chunk[k]].state = "rejected" THEN "rejected"
  ELSE IF \E k \in 1..Len(chunk) : ts[chunk[k]].state = "fulfilled" THEN "fulfilled"
  ELSE "pending"

\* Promise.all over the uploadFile promises of a chunk: the state of the
\* joined promise, given its state so far and the tasks' states
promiseAll(j, ts, chunk) ==
  IF j # "pending" THEN j
  ELSE IF \E k \in 1..Len(chunk) : ts[chunk[k]].state = "rejected" THEN "rejected"
  ELSE IF \A k \in 1..Len(chunk) : ts[chunk[k]].state = "fulfilled" THEN "fulfilled"
  ELSE "pending"

\* microtask: uploadFile for item i resumes after upload() settled
UploadFileResumes(i) ==
  /\ mq # <<>>
  /\ Head(mq) = i
  /\ LET s == uploadFile(i)
         ts == [tasks EXCEPT ![i] = s.task]
         j == promiseAll(join, ts, chunks[cur])
     IN  /\ results' = s.results
         /\ completed' = s.completed
         /\ fcLog' = s.fcLog
         /\ progLog' = s.progLog
         /\ tasks' = ts
         /\ join' = j
         /\ batchErr' = IF j # join /\ j = "rejected" THEN s.task.err ELSE batchErr
         /\ mq' = IF j # join THEN Append(Tail(mq), 0) ELSE Tail(mq)
  /\ UNCHANGED <<bpc, files, options, concurrency, chunks, loopI, cur, calls, invoked, nextKey>>
  /\ UNCHANGED unitVars

\* microtask: uploadBatch resumes after the Promise.all it awaits settled
BatchResumes ==
  /\ mq # <<>>
  /\ Head(mq) = 0
  /\ IF join = "rejected"
       THEN /\ bpc' = "rejected"
            /\ mq' = Tail(mq)
            /\ UNCHANGED <<cur, calls, tasks, invoked, join>>
       ELSE IF cur < Len(chunks)
         THEN /\ StartChunk(cur + 1)
              /\ UNCHANGED bpc
         ELSE /\ bpc' = "returned"
              /\ mq' = Tail(mq)
              /\ UNCHANGED <<cur, calls, tasks, invoked, join>>
  /\ UNCHANGED <<files, options, concurrency, chunks, loopI, batchErr, results,
                 completed, nextKey, fcLog, progLog>>
  /\ UNCHANGED unitVars

\* ---------------------------------------------------------- specification
ProgramInit ==
  /\ bpc = "idle"
  /\ files = <<>>
  /\ options = [concurrency |-> 0, onFileComplete |-> "none", onProgress |-> "none"]
  /\ concurrency = 0
  /\ chunks = <<>>
  /\ loopI = 0
  /\ cur = 0
  /\ join = "pending"
  /\ batchErr = NoError
  /\ results = [successful |-> <<>>, failed |-> <<>>]
  /\ completed = 0
  /\ calls = [i \in Items |-> NoCall]
  /\ tasks = [i \in Items |-> NoTask]
  /\ invoked = [i \in Items |-> 0]
  /\ mq = <<>>
  /\ nextKey = 1
  /\ fcLog = <<>>
  /\ progLog = <<>>

Init ==
  /\ ProgramInit
  /\ mapper = NoMapperCall
  /\ xfer = NoRequestCall
  /\ metrics = NewMetrics
  /\ folders = NoFolders

Next ==
  \/ UploadCall
  \/ UploadBatchCall
  \/ ChunkLoop
  \/ ChunkLoopExit
  \/ \E i \in Items : PresignSettles(i)
  \/ \E i \in Items : PutSettles(i)
  \/ \E i \in Items : CommitSettles(i)
  \/ \E i \in Items : UploadFileResumes(i)
  \/ BatchResumes

Spec == Init /\ [][Next]_vars

\* ------------------------------------------- the error mapper on its own
programVars == <<bpc, files, options, concurrency, chunks, loopI, cur, join, batchErr,
                 results, completed, calls, tasks, invoked, mq, nextKey, fcLog, progLog>>

\* the responses _createError is called for: status codes, parsed bodies and
\* retry-after headers (<<>>: no such header)
MapperStatuses == {400, 401, 403, 404, 418, 429, 500, 503}

MapperBodies ==
  { NullBody,
    EmptyBody,
    LimitBody,
    Body(JStr(<<"L", "I", "M", "I", "T">>), JStr(<<"b", "a", "d">>), <<>>),
    Body(JStr(<<"d", "e", "n", "i", "e", "d">>), JUndefined, <<"d1">>),
    Body(JUndefined, JStr(<<"o", "v", "e", "r", " ", "l", "i", "m", "i", "t">>), <<>>),
    Body(JStr(<<>>), JStr(<<"b", "a", "d">>), <<"d1">>),
    Body(JNum(7), JUndefined, <<>>),
    Body(JNum(0), JNum(7), <<>>) }

MapperHeaders ==
  { <<>>, <<"1", "2", "0">>, <<"0">>, <<"a", "b", "c">>, <<"-", "5">>, <<" ", "7", "s">> }

MapperInit ==
  /\ ProgramInit
  /\ mapper \in {MapperCall(s, b, h) : s \in MapperStatuses, b \in MapperBodies, h \in MapperHeaders}
  /\ xfer = NoRequestCall
  /\ metrics = NewMetrics
  /\ folders = NoFolders

\* this._createError(res.statusCode, parsedData, res.headers) is evaluated
CreateErrorCall ==
  /\ mapper.pc = "called"
  /\ LET ce == createError(mapper.statusCode, mapper.body, mapper.headers)
     IN  mapper' = [mapper EXCEPT !.pc = IF ce.threw THEN "threw" ELSE "returned", !.err = ce.err]
  /\ UNCHANGED <<programVars, xfer, metrics, folders>>

MapperNext == CreateErrorCall

MapperSpec == MapperInit /\ [][MapperNext]_vars

\* ------------------------------------------------ request() on its own
RequestStatuses == {200, 201, 204, 304, 399, 400, 401, 403, 404, 429, 500, 503}

RequestOutcomes ==
  {Response(s, b, h) : s \in RequestStatuses, b \in MapperBodies, h \in MapperHeaders}
    \cup {SocketError, SocketTimeout}

RequestInit ==
  /\ ProgramInit
  /\ mapper = NoMapperCall
  /\ xfer \in {RequestCall(out) : out \in RequestOutcomes}
  /\ metrics = NewMetrics
  /\ folders = NoFolders

\* the transport event of the call arrives: 'end' of the response, 'error' or
\* 'timeout' of the request
RequestSettles ==
  /\ xfer.pc = "pending"
  /\ LET r == request(xfer.out)
     IN  xfer' = [xfer EXCEPT
                    !.pc = CASE r.k = "resolve" -> "resolved"
                             [] r.k = "reject" -> "rejected"
                             [] OTHER -> "uncaught",
                    !.value = IF r.k = "resolve" THEN <<Resolution(xfer.out)>> ELSE <<>>,
                    !.err = r.err]
  /\ UNCHANGED <<programVars, mapper, metrics, folders>>

RequestNext == RequestSettles

RequestSpec == RequestInit /\ [][RequestNext]_vars

\* ------------------------------------------------------- Metrics on its own
MaxGets == 2
MaxTicks == 2

MetricsOutcomes == {Response(200, EmptyBody, <<>>), Response(500, EmptyBody, <<>>)}

MetricsInit ==
  /\ ProgramInit
  /\ mapper = NoMapperCall
  /\ xfer = NoRequestCall
  /\ metrics = NewMetrics
  /\ folders = NoFolders

MetricsGetCall ==
  /\ Len(metrics.gets) < MaxGets
  /\ \E useCache \in BOOLEAN : metrics' = metricsGet(metrics, useCache)
  /\ UNCHANGED <<programVars, mapper, xfer, folders>>

MetricsRequestSettles ==
  /\ \E k \in 1..Len(metrics.gets) :
       /\ metrics.gets[k].pc = "pending"
       /\ \E out \in MetricsOutcomes : metrics' = metricsGetResumes(metrics, k, out)
  /\ UNCHANGED <<programVars, mapper, xfer, folders>>

MetricsInvalidate ==
  /\ ~metrics.invalidated
  /\ metrics' = invalidateCache(metrics)
  /\ UNCHANGED <<programVars, mapper, xfer, folders>>

\* time passes
MetricsTick ==
  /\ metrics.now < MaxTicks * TickMs
  /\ metrics' = [metrics EXCEPT !.now = @ + TickMs]
  /\ UNCHANGED <<programVars, mapper, xfer, folders>>

MetricsNext ==
  \/ MetricsGetCall
  \/ MetricsRequestSettles
  \/ MetricsInvalidate
  \/ MetricsTick

MetricsSpec == MetricsInit /\ [][MetricsNext]_vars

\* ------------------------------------------------------- Folders on its own
MaxCalls == 2

\* a(c), b(d) under the root
TreeBackend ==
  <<Folder(<<"a">>, 0), Folder(<<"c">>, 1), Folder(<<"b">>, 0), Folder(<<"d">>, 3)>>

Backends == {<<>>, TreeBackend}

\* "A/x", " /x//", "" and " "
Paths == { <<"A", "/", "x">>, <<" ", "/", "x", "/", "/">>, <<>>, <<" ">> }

FolderOutcomes ==
  { Response(200, EmptyBody, <<>>),
    Response(500, EmptyBody, <<>>),
    Response(403, Body(JNum(7), JUndefined, <<>>), <<>>) }

FoldersInit ==
  /\ ProgramInit
  /\ mapper = NoMapperCall
  /\ xfer = NoRequestCall
  /\ metrics = NewMetrics
  /\ folders \in {[NoFolders EXCEPT !.backend = b] : b \in Backends}

\* a 200 response to a list request always carries the items when the parent
\* has children
ItemsChoices(p) == IF childrenOf(folders.backend, p) = <<>> THEN BOOLEAN ELSE {TRUE}

ListAllCall ==
  /\ folders.walk.pc = "none"
  /\ folders.calls = <<>>
  /\ \E parentId \in {0, 1} : folders' = [folders EXCEPT !.walk = listAll(parentId)]
  /\ UNCHANGED <<programVars, mapper, xfer, metrics>>

ListAllListSettles ==
  /\ folders.walk.pc = "running"
  /\ LET p == folders.walk.stack[Len(folders.walk.stack)].parent
     IN  \E out \in FolderOutcomes, hasItems \in ItemsChoices(p) :
           folders' = [folders EXCEPT !.walk = fetchResumes(@, folders.backend, out, hasItems)]
  /\ UNCHANGED <<programVars, mapper, xfer, metrics>>

CreatePathCalled ==
  /\ folders.walk.pc = "none"
  /\ Len(folders.calls) < MaxCalls
  /\ \E path \in Paths :
       LET alone == \A j \in 1..Len(folders.calls) :
                      folders.calls[j].pc \in {"resolved", "rejected"}
       IN  folders' = [folders EXCEPT !.calls = Append(@, createPath(path, alone))]
  /\ UNCHANGED <<programVars, mapper, xfer, metrics>>

CreatePathListSettles ==
  /\ \E n \in 1..Len(folders.calls) :
       /\ folders.calls[n].pc = "listing"
       /\ \E out \in FolderOutcomes, hasItems \in ItemsChoices(folders.calls[n].parentId) :
            LET c == createPathListed(folders.calls[n], folders.backend, out, hasItems)
            IN  folders' = [folders EXCEPT
                  !.calls[n] = c,
                  !.posts = IF c.pc = "creating"
                              THEN Append(@, [name |-> c.parts[c.k], parentId |-> c.parentId, by |-> n, k |-> c.k])
                              ELSE @]
  /\ UNCHANGED <<programVars, mapper, xfer, metrics>>

CreatePathCreateSettles ==
  /\ \E n \in 1..Len(folders.calls) :
       /\ folders.calls[n].pc = "creating"
       /\ \E out \in FolderOutcomes :
            LET c == folders.calls[n]
            IN  folders' = [folders EXCEPT
                  !.calls[n] = createPathCreated(c, Len(folders.backend) + 1, out),
                  !.backend = IF request(out).k = "resolve"
                                THEN backendCreate(@, c.parts[c.k], c.parentId)
                                ELSE @]
  /\ UNCHANGED <<programVars, mapper, xfer, metrics>>

FoldersNext ==
  \/ ListAllCall
  \/ ListAllListSettles
  \/ CreatePathCalled
  \/ CreatePathListSettles
  \/ CreatePathCreateSettles

FoldersSpec == FoldersInit /\ [][FoldersNext]_vars

\* ------------------------------------------------------------ properties
N == Len(files)
Started(i) == calls[i].pc # "none"
Unsettled(i) == calls[i].pc \in {"presign", "put", "commit", "hung"}
InFlight == {i \in Items : Unsettled(i)}
Scheduling == bpc \in {"awaiting", "returned", "rejected"}
Has(t, e) == \E p \in 1..Len(t) : t[p].e = e
SentOps(i, op) == {k \in 1..Len(calls[i].sent) : calls[i].sent[k].op = op}
EntriesOf(i) ==
  Cardinality({k \in 1..Len(results.successful) : results.successful[k].item = i})
    + Cardinality({k \in 1..Len(results.failed) : results.failed[k].item = i})
CallbackThrew == \E i \in Items : tasks[i].err.name = "CallbackError"

\* C1: when uploadBatch returns, successful.length + failed.length is the number
\* of requests and every request has exactly one entry, in one of the two lists.
C1_OutcomePartition ==
  bpc = "returned" =>
    /\ Len(results.successful) + Len(results.failed) = N
    /\ \A i \in 1..N : EntriesOf(i) = 1

C1_Witness ==
  /\ bpc = "returned"
  /\ N >= 2
  /\ results.successful # <<>>
  /\ results.failed # <<>>

\* C2: while uploadBatch runs with a positive concurrency K, at most K upload()
\* calls have started and not yet settled.
C2_BoundedInFlight ==
  (Scheduling /\ concurrency > 0) => Cardinality(InFlight) <= concurrency

C2_Witness ==
  /\ bpc = "awaiting"
  /\ concurrency = 2
  /\ N = 3
  /\ InFlight = {1, 2}
  /\ ~Started(3)

\* C3: the chunks are the consecutive groups of K items in submission order (the
\* last may be smaller), and no item of a later group has started while an item
\* of an earlier group is unsettled.
C3_GroupsInOrder ==
  (Scheduling /\ concurrency > 0) =>
    /\ Len(chunks) * concurrency >= N
    /\ \A g \in 1..Len(chunks) :
         chunks[g] = [k \in 1..Min(concurrency, N - (g - 1) * concurrency)
                        |-> (g - 1) * concurrency + k]
    /\ \A g \in 1..Len(chunks), h \in 1..Len(chunks) :
         g < h =>
           \A a \in 1..Len(chunks[g]), b \in 1..Len(chunks[h]) :
             Started(chunks[h][b]) => Settled(calls[chunks[g][a]])

\* one slow item of the first group holds back the second group
C3_Witness ==
  /\ bpc = "awaiting"
  /\ concurrency = 2
  /\ N = 3
  /\ tasks[1].state = "fulfilled"
  /\ Unsettled(2)
  /\ ~Started(3)

\* C4: a failure of one item never cancels or skips another: once uploadBatch
\* has returned or rejected without a callback having thrown, upload() has been
\* invoked exactly once for every submitted request.
C4_NoItemSkipped ==
  (bpc \in {"returned", "rejected"} /\ ~CallbackThrew) => \A i \in 1..N : invoked[i] = 1

\* C5: uploadBatch never rejects because of an item's failure (only a throwing
\* callback makes it reject), and every item whose upload() rejected has an
\* entry in failed once its uploadFile has finished.
C5_ItemFailuresContained ==
  /\ bpc = "rejected" => batchErr.name = "CallbackError"
  /\ \A i \in 1..N :
       (tasks[i].state \in {"fulfilled", "rejected"} /\ calls[i].pc = "rejected")
         => \E k \in 1..Len(results.failed) : results.failed[k].item = i

\* C6: within one upload() call the presign request is issued after the source
\* is resolved, the PUT after the presign response arrived, and the commit
\* after the PUT succeeded.
C6_StepsSequential ==
  \A i \in Items :
    LET t == calls[i].trace
    IN  \A p \in 1..Len(t) :
          /\ t[p].e = "presign" => \E q \in 1..(p - 1) : t[q].e = "resolved"
          /\ t[p].e = "put" => \E q \in 1..(p - 1) : t[q].e = "presign_ok"
          /\ t[p].e = "commit" => \E q \in 1..(p - 1) : t[q].e = "put_ok"

C6_Witness ==
  \E i \in Items :
    /\ calls[i].pc = "commit"
    /\ Len(calls[i].sent) = 3

\* C7: after a failed PUT no commit is issued, and after a failed presign call
\* neither a PUT nor a commit is issued.
C7_NoCommitAfterFailedTransfer ==
  \A i \in Items :
    /\ Has(calls[i].trace, "put_fail") => SentOps(i, "commit") = {}
    /\ Has(calls[i].trace, "presign_fail") => (SentOps(i, "put") = {} /\ SentOps(i, "commit") = {})

C7_Witness ==
  \E i \in Items :
    /\ Has(calls[i].trace, "put_fail")
    /\ calls[i].pc = "rejected"
    /\ calls[i].err.name = "UploadError"

Grants(i) == {calls[i].trace[p].v : p \in {q \in 1..Len(calls[i].trace) : calls[i].trace[q].e = "presign_ok"}}
PutUrls(i) == {calls[i].sent[k].url : k \in SentOps(i, "put")}

\* C10 as stated: every grant is the target of exactly one PUT, by the call that
\* requested it, and of no PUT by another call.
C10_GrantUsedExactlyOnce ==
  \A i \in Items :
    (Settled(calls[i]) /\ Grants(i) # {}) =>
      /\ Cardinality(SentOps(i, "put")) = 1
      /\ PutUrls(i) = Grants(i)
      /\ \A j \in Items \ {i} : PutUrls(j) \cap Grants(i) = {}

\* C10 (amended): every grant is the target of at most one PUT, by the call that
\* requested it and by no other call; the PUT is issued with the presign
\* response unless the progress sink throws on progress(0), and then never; a
\* failed PUT is not repeated.
C10_GrantUsedAtMostOnce ==
  LET g == [i \in Items |-> Grants(i)]
      u == [i \in Items |-> PutUrls(i)]
  IN  \A i \in Items :
        /\ Cardinality(g[i]) <= 1
        /\ Cardinality(SentOps(i, "put")) <= 1
        /\ u[i] \subseteq g[i]
        /\ g[i] # {} => (u[i] = {} <=> Throws(files[i].onProgress, 0))
        /\ \A j \in Items \ {i} : u[j] \cap g[i] = {}

\* two items of one batch are in their transfer step, each with its own grant
C10_Witness ==
  /\ bpc = "awaiting"
  /\ \E i \in Items, j \in Items :
       /\ i # j
       /\ calls[i].pc = "put"
       /\ calls[j].pc = "put"
       /\ PutUrls(i) # PutUrls(j)

\* the requests upload() has to refuse: no options or no file, an empty or
\* white-space path, a path that names no file, a Buffer without a filename, a
\* file that is neither a string nor a Buffer
InvalidRequest(req) ==
  \/ req.t = "null"
  \/ req.file.t \in {"undefined", "null"}
  \/ req.file.t = "string" /\ \A k \in 1..Len(req.file.v) : req.file.v[k] \in WhiteSpace
  \/ req.file.t = "string" /\ req.file.v \notin {f.path : f \in FsFiles}
  \/ req.file.t = "buffer" /\ req.filename = <<>>
  \/ req.file.t \notin {"string", "buffer"}

\* C11: upload() of an invalid request rejects with a ValidationError and hands
\* nothing to the transport: no presign, no PUT, no commit.
C11_InvalidRequestNoTransport ==
  \A i \in Items :
    (Started(i) /\ InvalidRequest(files[i])) =>
      /\ calls[i].pc = "rejected"
      /\ calls[i].err.name = "ValidationError"
      /\ calls[i].sent = <<>>
      /\ ~Has(calls[i].trace, "presign")

\* a Buffer without a filename, although a MIME type is given
C11_Witness ==
  /\ bpc = "direct"
  /\ files[1].file.t = "buffer"
  /\ files[1].filename = <<>>
  /\ files[1].mimeType # ""
  /\ calls[1].pc = "rejected"

\* C12: a ValidationError that upload() raises itself, before any request was
\* handed to the transport, carries no status code.
C12_LocalValidationHasNoStatus ==
  \A i \in Items :
    (calls[i].pc = "rejected" /\ calls[i].sent = <<>> /\ calls[i].err.name = "ValidationError")
      => calls[i].err.statusCode = <<>>

\* the positions of event e in the history of call i, and the values the
\* progress sink of call i was invoked with, in order
At(i, e) == {p \in 1..Len(calls[i].trace) : calls[i].trace[p].e = e}
ProgressOf(i) ==
  LET t == SelectSeq(calls[i].trace, LAMBDA x : x.e = "progress")
  IN  [k \in 1..Len(t) |-> t[k].v]

\* C13: an upload() call with a progress sink that succeeds has invoked the sink
\* exactly twice, with 0 and then 100; progress(0) after the presign response
\* and before the PUT is issued, progress(100) after the PUT succeeded and
\* before the commit is issued; and it yields exactly one file record.
C13_TwoPointProgress ==
  \A i \in Items :
    (calls[i].pc = "resolved" /\ Given(files[i].onProgress)) =>
      /\ ProgressOf(i) = <<0, 100>>
      /\ \E p0, p100 \in At(i, "progress") :
           /\ p0 < p100
           /\ \A q \in At(i, "presign_ok") : q < p0
           /\ \A q \in At(i, "put") : p0 < q
           /\ \A q \in At(i, "put_ok") : q < p100
           /\ \A q \in At(i, "commit") : p100 < q
      /\ Cardinality(At(i, "presign_ok")) = 1
      /\ Cardinality(At(i, "put")) = 1
      /\ Cardinality(At(i, "put_ok")) = 1
      /\ Cardinality(At(i, "commit")) = 1
      /\ Len(calls[i].file) = 1
      /\ Cardinality(At(i, "resolve")) = 1

C13_Witness ==
  /\ bpc = "direct"
  /\ Given(files[1].onProgress)
  /\ calls[1].pc = "resolved"
  /\ ProgressOf(1) = <<0, 100>>

\* neither callback of the batch throws
CallbacksReturn == ~Throws(options.onFileComplete, 0) /\ ~Throws(options.onProgress, 0)

\* the invocations of onFileComplete for item i
FileCompleteCalls(i) == {k \in 1..Len(fcLog) : fcLog[k].item = i}

\* C14: onFileComplete is invoked only for an item whose upload() has settled,
\* with (record, null) if it resolved and (null, error) if it rejected, at most
\* once per item, and, once uploadBatch has finished, its callbacks being
\* functions that return, exactly once for every submitted item.
C14_FileCompleteOncePerItem ==
  /\ \A k \in 1..Len(fcLog) :
       LET c == calls[fcLog[k].item]
       IN  /\ Settled(c)
           /\ c.pc = "resolved" => (fcLog[k].file = c.file /\ Len(c.file) = 1 /\ fcLog[k].error = <<>>)
           /\ c.pc = "rejected" => (fcLog[k].file = <<>> /\ fcLog[k].error = <<c.err>>)
  /\ \A i \in Items : Cardinality(FileCompleteCalls(i)) <= 1
  /\ (bpc \in {"returned", "rejected"} /\ Given(options.onFileComplete) /\ CallbacksReturn)
       => \A i \in 1..N : Cardinality(FileCompleteCalls(i)) = 1

\* p is 100 * k / n rounded to the nearest integer (halves upwards)
IsRounded(p, k, n) == 2 * p * n - n <= 200 * k /\ 200 * k < 2 * p * n + n

\* C15: the k-th invocation of the batch's onProgress receives
\* (round(100 * k / N), k, N), and once uploadBatch over N >= 1 items has
\* finished, its callbacks being functions that return, there were exactly N invocations,
\* the last one reporting 100, whichever items succeeded or failed.
C15_ProgressOncePerItem ==
  /\ \A k \in 1..Len(progLog) :
       /\ IsRounded(progLog[k][1], k, N)
       /\ progLog[k][2] = k
       /\ progLog[k][3] = N
       /\ k > 1 => progLog[k - 1][1] <= progLog[k][1]
  /\ (bpc \in {"returned", "rejected"} /\ N >= 1 /\ Given(options.onProgress) /\ CallbacksReturn)
       => (Len(progLog) = N /\ progLog[N][1] = 100)

\* cs contains "limit", whatever the case of its letters
ContainsLimit(cs) ==
  LET word == <<{"l", "L"}, {"i", "I"}, {"m", "M"}, {"i", "I"}, {"t", "T"}>>
  IN  \E p \in 0..(Len(cs) - 5) : \A k \in 1..5 : cs[p + k] \in word[k]

\* the message the mapper extracts: body.message, else body.error (a null body,
\* an absent or an empty value counts as none)
Extracted(body) ==
  IF ~body.nil /\ Truthy(body.message) THEN <<body.message>>
  ELSE IF ~body.nil /\ Truthy(body.error) THEN <<body.error>>
  ELSE <<>>

\* the table of kinds: name, status code and code of the error for a response
TableKind(statusCode, body) ==
  LET x == Extracted(body)
      limit == x # <<>> /\ x[1].t = "string" /\ ContainsLimit(x[1].cs)
      Kind(name, s, code) == [name |-> name, statusCode |-> s, code |-> code]
  IN  CASE statusCode = 401 -> Kind("AuthenticationError", <<401>>, <<"AUTH_ERROR">>)
        [] statusCode = 404 -> Kind("NotFoundError", <<404>>, <<"NOT_FOUND">>)
        [] statusCode = 400 -> Kind("ValidationError", <<400>>, <<"VALIDATION_ERROR">>)
        [] statusCode = 429 -> Kind("RateLimitError", <<429>>, <<"RATE_LIMIT">>)
        [] statusCode = 403 /\ limit -> Kind("LimitExceededError", <<403>>, <<"LIMIT_EXCEEDED">>)
        [] statusCode = 403 /\ ~limit -> Kind("BrizoError", <<403>>, <<"FORBIDDEN">>)
        [] OTHER -> Kind("BrizoError", <<statusCode>>, <<>>)

\* the error e is what the table fixes for the response (statusCode, body)
ByTable(e, statusCode, body) ==
  LET x == Extracted(body)
      k == TableKind(statusCode, body)
  IN  /\ e.name = k.name
      /\ e.statusCode = k.statusCode
      /\ e.code = k.code
      /\ e.message = IF x = <<>> THEN "Request failed with status " \o Str(IntChars(statusCode))
                     ELSE ToStr(x[1])
      /\ statusCode = 400 => e.details = (IF body.nil THEN <<>> ELSE body.details)

\* C16: for every response, _createError yields the error of the table: 401
\* Authentication, 404 NotFound, 400 Validation with body.details, 429
\* RateLimit, 403 LimitExceeded if the message contains "limit" in any case and
\* otherwise a BrizoError with code FORBIDDEN, any other status a BrizoError
\* with that status and no code; the message is body.message, else body.error,
\* else "Request failed with status <status>".
C16_MapperTable ==
  mapper.pc \in {"returned", "threw"} =>
    /\ mapper.pc = "returned"
    /\ ByTable(mapper.err, mapper.statusCode, mapper.body)

\* C17: _createError is total: whatever the status code, the parsed body (null,
\* without message or error, with a message or error that is not a string) and
\* the headers, the call returns an error value and does not throw.
C17_MapperTotal ==
  mapper.pc \in {"returned", "threw"} =>
    /\ mapper.pc = "returned"
    /\ mapper.err.name \in {"BrizoError", "AuthenticationError", "NotFoundError", "ValidationError",
                            "RateLimitError", "LimitExceededError"}

\* C18: the RateLimitError for a 429 response carries as retryAfter the integer
\* parsed from the retry-after header, and null when there is no such header
\* or it does not parse as an integer.
C18_RetryAfterParsedOrNull ==
  (mapper.pc = "returned" /\ mapper.statusCode = 429) =>
    LET h == mapper.headers
    IN  /\ mapper.err.name = "RateLimitError"
        /\ h = <<>> => mapper.err.retryAfter = <<>>
        /\ (h # <<>> /\ parseInt(h).nan) => mapper.err.retryAfter = <<>>
        /\ (h # <<>> /\ ~parseInt(h).nan) => mapper.err.retryAfter = <<parseInt(h)>>

\* the errors request() rejects with for the failures of the presign and the
\* commit call
RequestErrors ==
  {request(out).err : out \in {o \in PresignOutcomes \cup CommitOutcomes \cup BatchPresignOutcomes
                                       \cup BatchCommitOutcomes : request(o).k = "reject"}}

\* C19: once the presign call or the commit call of upload() has failed, the
\* call has rejected with the error request() produced for that failure (for a
\* response of status >= 400: the error of _createError), not wrapped as an
\* UploadError, also when the commit fails after the bytes were transferred.
C19_MapperErrorPassedThrough ==
  \A i \in Items :
    (Has(calls[i].trace, "presign_fail") \/ Has(calls[i].trace, "commit_fail")) =>
      /\ calls[i].pc = "rejected"
      /\ calls[i].err \in RequestErrors
      /\ calls[i].err.name # "UploadError"

\* C20: once the PUT of an upload() call has failed (status >= 400, network
\* error or timeout), the call has rejected with an UploadError whose details
\* are { filename, size, key }: the filename and size the call resolved (those
\* of its presign request) and the key of its presign response.
C20_TransferFaultIsUploadError ==
  \A i \in Items :
    Has(calls[i].trace, "put_fail") =>
      /\ calls[i].pc = "rejected"
      /\ calls[i].err.name = "UploadError"
      /\ Len(calls[i].err.details) = 1
      /\ LET d == calls[i].err.details[1]
             presign == calls[i].sent[1]
         IN  /\ DOMAIN d = {"filename", "size", "key"}
             /\ presign.op = "presign"
             /\ d.filename = presign.filename
             /\ d.size = presign.size
             /\ Grants(i) = {d.key}

\* the PUT of a named Buffer timed out or was refused
C20_Witness ==
  /\ bpc = "direct"
  /\ files[1].file.t = "buffer"
  /\ Has(calls[1].trace, "put_fail")
  /\ calls[1].pc = "rejected"
  /\ calls[1].err.details = <<[filename |-> NameB, size |-> 10, key |-> 1]>>

\* C21 as stated: request() never rejects on a response, whatever its status:
\* the response is handed to the caller with its status, headers and parsed
\* body; request() rejects only with NETWORK_ERROR or TIMEOUT errors.
C21_NeverRejectsOnResponse ==
  xfer.pc \notin {"none", "pending"} =>
    /\ xfer.out.t = "response" =>
         (xfer.pc = "resolved" /\ xfer.value = <<Resolution(xfer.out)>>)
    /\ xfer.pc = "rejected" => xfer.err.code \in {<<"NETWORK_ERROR">>, <<"TIMEOUT">>}

\* C21 (amended): request() resolves with the status, headers and parsed body
\* only for a response of status below 400; on a response of status 400 or more
\* it never resolves, and when it rejects, it rejects with the error
\* _createError returned for that response; on a connection fault it rejects
\* with a NETWORK_ERROR and on a timeout with a TIMEOUT error, both without
\* status code.
C21_RejectsOnHttpError ==
  xfer.pc \notin {"none", "pending"} =>
    LET out == xfer.out
    IN  /\ (out.t = "response" /\ out.status < 400) =>
             (xfer.pc = "resolved" /\ xfer.value = <<Resolution(out)>>)
        /\ (out.t = "response" /\ out.status >= 400) =>
             /\ xfer.pc # "resolved"
             /\ xfer.value = <<>>
             /\ xfer.pc = "rejected" =>
                  LET ce == createError(out.status, out.body, out.retryAfter)
                  IN  ~ce.threw /\ xfer.err = ce.err /\ xfer.err.statusCode = <<out.status>>
        /\ out.t = "error" =>
             (xfer.pc = "rejected" /\ xfer.err.name = "BrizoError"
                /\ xfer.err.code = <<"NETWORK_ERROR">> /\ xfer.err.statusCode = <<>>)
        /\ out.t = "timeout" =>
             (xfer.pc = "rejected" /\ xfer.err.name = "BrizoError"
                /\ xfer.err.code = <<"TIMEOUT">> /\ xfer.err.statusCode = <<>>)

C21_Witness ==
  /\ xfer.pc = "rejected"
  /\ xfer.out.t = "response"
  /\ xfer.out.status = 404
  /\ xfer.err.name = "NotFoundError"

\* the label the result carries for request req: a string, its filename or,
\* when it has none, its source path
IsLabelOf(l, req) ==
  /\ l.t = "string"
  /\ IF req.filename # <<>> THEN l.v = req.filename
     ELSE req.file.t = "string" /\ l.v = req.file.v

\* C22: every entry of failed is the label of the request that failed and the
\* message of that failure; every entry of successful is the file record of
\* the request's upload() with the label of that request, also when the items
\* of a group complete out of submission order.
C22_EntriesLabelled ==
  /\ \A k \in 1..Len(results.failed) :
       LET e == results.failed[k]
       IN  /\ calls[e.item].pc = "rejected"
           /\ e.error = calls[e.item].err.message
           /\ IsLabelOf(e.label, files[e.item])
  /\ \A k \in 1..Len(results.successful) :
       LET e == results.successful[k]
       IN  /\ calls[e.item].pc = "resolved"
           /\ <<e.file>> = calls[e.item].file
           /\ IsLabelOf(e.label, files[e.item])

\* seq2 is seq1, or seq1 with one entry added at its end
GrowsAtEnd(seq1, seq2) ==
  \/ seq2 = seq1
  \/ Len(seq2) = Len(seq1) + 1 /\ SubSeq(seq2, 1, Len(seq1)) = seq1

\* the items of the batch whose upload() settles in this step, and the items that have
\* settled and whose uploadFile has not yet gone on, in the order they settled
SettlesNow(i) == ~Settled(calls[i]) /\ Settled(calls'[i]) /\ tasks'[i].state = "pending"
SettledUnrecorded == SelectSeq(mq, LAMBDA x : x # 0)

\* C23: in every step successful and failed are unchanged or grow by one entry
\* at their end, never both at once; the entry added is that of the item that
\* settled first among those not yet recorded, so that each list is in the
\* order in which the items' upload() calls settled.
C23_AppendOnlyInSettleOrder ==
  [][ /\ GrowsAtEnd(results.successful, results'.successful)
      /\ GrowsAtEnd(results.failed, results'.failed)
      /\ results'.successful = results.successful \/ results'.failed = results.failed
      /\ results' # results =>
           LET seq == IF results'.failed # results.failed THEN results'.failed
                      ELSE results'.successful
           IN  /\ SettledUnrecorded # <<>>
               /\ seq[Len(seq)].item = Head(SettledUnrecorded)
      /\ \A i \in Items :
           SettlesNow(i) =>
             \E p \in 1..Len(mq') :
               /\ mq'[p] = i
               /\ \A q \in 1..Len(mq') : (~SettlesNow(mq'[q]) /\ mq'[q] # 0) => q < p
    ]_vars

\* the second item of a group was recorded before the first
C23_Witness ==
  /\ Len(results.successful) = 2
  /\ results.successful[1].item = 2
  /\ results.successful[2].item = 1

\* the items of seq are in submission order
InSubmissionOrder(seq) == \A k, l \in 1..Len(seq) : k < l => seq[k].item < seq[l].item

\* C24: with concurrency 1 an item's upload() starts only after the upload() of
\* the item before it has settled, at most one is in flight, and the outcomes
\* are recorded in submission order; with concurrency >= N the N items are one
\* group, and upload() has been started for all of them when the group is
\* awaited.
C24_BoundaryGroupSizes ==
  /\ (Scheduling /\ concurrency = 1) =>
       /\ \A i \in 1..(N - 1) : Started(i + 1) => Settled(calls[i])
       /\ Cardinality(InFlight) <= 1
       /\ \A g \in 1..Len(chunks) : chunks[g] = <<g>>
       /\ InSubmissionOrder(results.successful)
       /\ InSubmissionOrder(results.failed)
  /\ (Scheduling /\ N >= 1 /\ concurrency >= N) =>
       /\ chunks = <<[k \in 1..N |-> k]>>
       /\ \A i \in 1..N : invoked[i] = 1 /\ Started(i)

\* three items in one group, all started, none settled
C24_Witness ==
  /\ bpc = "awaiting"
  /\ N = 3
  /\ concurrency >= N
  /\ InFlight = {1, 2, 3}

\* the entry of the fixed table for the lower-cased extension of filename,
\* application/octet-stream when the table has none
TableType(filename) ==
  LET ext == Str(slice1(toLowerCase(extname(filename))))
      rows == {k \in 1..Len(mimeTypes) : mimeTypes[k][1] = ext}
  IN  IF rows = {} THEN "application/octet-stream" ELSE mimeTypes[CHOOSE k \in rows : TRUE][2]

\* C25: the content type upload() sends in its presign request is the caller's
\* mimeType when given, otherwise the table entry for the lower-cased extension
\* of the resolved filename, otherwise application/octet-stream; a 10-byte
\* Buffer named hello.txt without mimeType is presigned as text/plain, size 10.
C25_ContentTypeDerived ==
  \A i \in Items :
    calls[i].sent # <<>> =>
      LET presign == calls[i].sent[1]
          req == files[i]
      IN  /\ presign.type = IF req.mimeType # "" THEN req.mimeType ELSE TableType(presign.filename)
          /\ (req.file = FBuffer(10) /\ req.filename = NameHello /\ req.mimeType = "") =>
               (presign.type = "text/plain" /\ presign.size = 10)

\* C26: the commit request of an upload() call carries the key of that call's
\* presign response and the filename, size, content type and folder id of that
\* call's presign request (folder id "" for the root); it never carries a key
\* that another item obtained.
C26_CommitMatchesPresign ==
  \A i \in Items :
    \A k \in SentOps(i, "commit") :
      LET commit == calls[i].sent[k]
          presign == calls[i].sent[1]
      IN  /\ presign.op = "presign"
          /\ Grants(i) = {commit.key}
          /\ commit.filename = presign.filename
          /\ commit.size = presign.size
          /\ commit.type = presign.type
          /\ commit.folderId = presign.folderId
          /\ commit.folderId = files[i].folderId
          /\ \A j \in Items \ {i} : commit.key \notin Grants(j)

\* two items of a batch have issued their commits, each with its own key
C26_Witness ==
  /\ bpc = "awaiting"
  /\ \E i, j \in Items :
       /\ i # j
       /\ calls[i].pc = "commit"
       /\ calls[j].pc = "commit"
       /\ calls[i].key # calls[j].key

\* C27: the group size of uploadBatch is 3 when options.concurrency is omitted,
\* 0 or otherwise falsy, and the supplied value otherwise: it is the step of the
\* partitioning loop and the width of each slice, so that for a positive value
\* every group but the last has exactly that many items.
C27_DefaultGroupSize ==
  bpc \in {"chunking", "awaiting", "returned", "rejected"} =>
    /\ concurrency = IF options.concurrency = 0 THEN 3 ELSE options.concurrency
    /\ loopI = Len(chunks) * concurrency
    /\ concurrency > 0 =>
         \A g \in 1..Len(chunks) :
           Len(chunks[g]) = IF g * concurrency <= N THEN concurrency ELSE N - (g - 1) * concurrency

\* no concurrency given, three items: one group of three
C27_Witness ==
  /\ bpc = "awaiting"
  /\ options.concurrency = 0
  /\ N = 3
  /\ chunks = <<<<1, 2, 3>>>>


\* the cache test of get(), on what the call found when it was made
ServedFromCache(c) == c.useCache /\ c.cacheAtStart # <<>> /\ c.start < c.expiryAtStart

\* the number of get() calls that issued a request
RECURSIVE Issuing(_)
Issuing(gets) ==
  IF gets = <<>> THEN 0
  ELSE (IF Head(gets).req # 0 THEN 1 ELSE 0) + Issuing(Tail(gets))

\* C28: Metrics.get() returns the cached metrics without a request iff
\* useCache is not false, a cached value exists and the time of the call is
\* strictly before the cache expiry, which is the start of a fetch + 5000 ms;
\* otherwise it issues exactly one GET /v1/metrics; the get() that follows
\* invalidateCache(), and every get() with useCache false, issues a request.
C28_CacheOrOneRequest ==
  /\ \A k \in 1..Len(metrics.gets) :
       LET c == metrics.gets[k]
       IN  /\ (c.req = 0) <=> ServedFromCache(c)
           /\ c.req = 0 => (c.pc = "resolved" /\ c.value = c.cacheAtStart)
           /\ c.first => c.req # 0
           /\ ~c.useCache => c.req # 0
  /\ metrics.requests = Issuing(metrics.gets)
  /\ metrics.cache # <<>> =>
       \E k \in 1..Len(metrics.gets) :
         /\ metrics.gets[k].req = metrics.cache[1]
         /\ metrics.cacheExpiry = metrics.gets[k].start + CacheTTL


\* the parents whose list request failed during the listAll call
FailedParents == {folders.walk.failed[k].parentId : k \in 1..Len(folders.walk.failed)}

\* folder id lies under the folder top and no folder from its parent up to
\* top had a failing list request
RECURSIVE Traversed(_, _)
Traversed(id, top) ==
  LET parent == folders.backend[id].parentId
  IN  /\ parent \notin FailedParents
      /\ parent = top \/ (parent # 0 /\ Traversed(parent, top))

\* C29: Folders.listAll never rejects because a list request failed: the
\* failure listing the children of P is recorded as {parentId: P, error:
\* message} in _errors, only P's subtree is omitted from the result, the
\* siblings and their subtrees are still traversed, and _errors is present
\* iff at least one list request failed.
C29_ListFailuresContained ==
  LET w == folders.walk
  IN  /\ w.pc # "rejected"
      /\ w.errors = w.failed
      /\ w.failed # <<>> => w.pc \in {"running", "resolved"}
      /\ w.pc = "resolved" =>
           /\ {w.allFolders[k].id : k \in 1..Len(w.allFolders)}
                = {id \in 1..Len(folders.backend) : Traversed(id, w.listed[1])}
           /\ {w.listed[k] : k \in 1..Len(w.listed)}
                = {w.listed[1]} \cup {w.allFolders[k].id : k \in 1..Len(w.allFolders)}
           /\ (w._errors # <<>>) <=> (w.failed # <<>>)
           /\ w._errors # <<>> => w._errors[1] = w.failed


SameName(a, b) == toLowerCase(a) = toLowerCase(b)

\* the create requests call n issued
PostsBy(n) == SelectSeq(folders.posts, LAMBDA p : p.by = n)

\* the folder with which step j of call c went on: the reused child, or a
\* folder of the backend created with the step's name under the step's parent
WentOnWith(c, j, id) ==
  LET s == c.steps[j]
  IN  IF s.reused # <<>> THEN id = s.reused[1].id
      ELSE /\ id \in 1..Len(folders.backend)
           /\ id \notin {s.items[i].id : i \in 1..Len(s.items)}
           /\ folders.backend[id] = Folder(s.part, s.parentId)

\* C30: createPath takes the non-blank segments left to right; for each it
\* lists the children of the current parent and reuses the first child whose
\* name matches case-insensitively, creating a folder only when none matches,
\* at most one create per segment; with every call made after the earlier
\* ones have settled, a second createPath of the same path creates no folder
\* and returns the same folder as the first.
C30_ReuseThenCreate ==
  /\ \A n \in 1..Len(folders.calls) :
       LET c == folders.calls[n]
       IN  /\ \A k \in 1..Len(c.parts) :
                LET chars == {c.parts[k][i] : i \in 1..Len(c.parts[k])}
                IN  "/" \notin chars /\ chars \ {" "} # {}
           /\ Len(c.steps) <= Len(c.parts)
           /\ \A j \in 1..Len(c.steps) :
                LET s == c.steps[j]
                    matches == {i \in 1..Len(s.items) : SameName(s.items[i].name, s.part)}
                IN  /\ s.part = c.parts[j]
                    /\ Len(s.items) <= Len(childrenOf(folders.backend, s.parentId))
                    /\ s.items = SubSeq(childrenOf(folders.backend, s.parentId), 1, Len(s.items))
                    /\ j = 1 => s.parentId = 0
                    /\ j > 1 => WentOnWith(c, j - 1, s.parentId)
                    /\ matches # {} =>
                         /\ s.reused = <<s.items[CHOOSE i \in matches : \A i2 \in matches : i <= i2]>>
                         /\ ~s.created
                    /\ matches = {} => (s.reused = <<>> /\ s.created)
           /\ Len(PostsBy(n)) = Cardinality({j \in 1..Len(c.steps) : c.steps[j].created})
           /\ \A q \in 1..Len(PostsBy(n)) :
                LET p == PostsBy(n)[q]
                IN  /\ p.k \in 1..Len(c.steps)
                    /\ c.steps[p.k].created
                    /\ p.name = c.parts[p.k]
                    /\ p.parentId = c.steps[p.k].parentId
                    /\ \A q2 \in 1..Len(PostsBy(n)) : PostsBy(n)[q2].k = p.k => q2 = q
           /\ c.pc = "resolved" => /\ Len(c.steps) = Len(c.parts)
                                   /\ c.lastFolder # <<>>
                                   /\ WentOnWith(c, Len(c.steps), c.lastFolder[1].id)
  /\ \A m, n \in 1..Len(folders.calls) :
       (/\ m < n
        /\ \A j \in 1..n : folders.calls[j].alone
        /\ folders.calls[m].pc = "resolved"
        /\ folders.calls[n].path = folders.calls[m].path)
       => /\ PostsBy(n) = <<>>
          /\ folders.calls[n].pc = "resolved" =>
               folders.calls[n].lastFolder = folders.calls[m].lastFolder

\* a path of two segments was created on an empty backend, and a second
\* createPath of the same path has returned
C30_Witness ==
  /\ Len(folders.calls) >= 2
  /\ folders.calls[1].pc = "resolved"
  /\ Len(PostsBy(1)) = 2
  /\ folders.calls[2].alone
  /\ folders.calls[2].path = folders.calls[1].path
  /\ folders.calls[2].pc = "resolved"


\* uploadBatch is running, was given a positive concurrency and callbacks
\* that do not throw
RunsAsRequired == bpc \in {"chunking", "awaiting", "returned", "rejected"} /\ concurrency > 0 /\ CallbacksReturn

\* some step of the running call is still to come: a queued microtask, or a
\* transport call that has not settled
StepPending ==
  \/ mq # <<>>
  \/ \E i \in 1..Len(files) : calls[i].pc \in {"presign", "put", "commit"}

\* C31: uploadBatch called with a finite list, a positive concurrency and
\* callbacks that do not throw eventually returns its result, every transport
\* call settling: the partitioning loop advances to its end, while the call
\* waits a step is pending, and it does not end by rejecting.
C31_BatchReturns ==
  RunsAsRequired =>
    /\ bpc = "chunking" =>
         (loopI = Len(chunks) * concurrency /\ loopI < Len(files) + concurrency)
    /\ bpc = "awaiting" => StepPending
    /\ bpc # "rejected"


\* C32: for a negative concurrency and a non-empty list the partitioning loop
\* never ends (its index only decreases and stays below the list length), so
\* no upload() call is started and uploadBatch neither returns nor rejects.
C32_NegativeConcurrencyLoops ==
  (bpc \notin {"idle", "direct"} /\ options.concurrency < 0 /\ Len(files) > 0) =>
    /\ bpc = "chunking"
    /\ concurrency = options.concurrency
    /\ loopI = Len(chunks) * concurrency
    /\ loopI <= 0
    /\ loopI < Len(files)
    /\ \A i \in Items : calls[i].pc = "none" /\ invoked[i] = 0 /\ tasks[i].state = "none"
    /\ mq = <<>>

\* the loop has run as far as the model follows it
C32_Witness ==
  /\ bpc = "chunking"
  /\ options.concurrency < 0
  /\ Len(files) > 0
  /\ Len(chunks) = MaxChunks
  /\ loopI = MaxChunks * concurrency


\* a callback that throws has been invoked
ThrowingCallbackInvoked ==
  \/ Throws(options.onFileComplete, 0) /\ fcLog # <<>>
  \/ Throws(options.onProgress, 0) /\ progLog # <<>>

\* item i belongs to a group after the current one
InLaterGroup(i) == \E c \in (cur + 1)..Len(chunks) : InChunk(i, chunks[c])

SinkThrewAt(i, pct) ==
  /\ Throws(files[i].onProgress, pct)
  /\ \E p \in At(i, "progress") : calls[i].trace[p].v = pct

\* the call rejected with the error upload() makes of a transfer fault
RejectedAsTransferFault(i) ==
  /\ calls[i].pc = "rejected"
  /\ calls[i].err.name = "UploadError"
  /\ calls[i].err.code = <<"UPLOAD_ERROR">>
  /\ calls[i].err.details = <<[filename |-> calls[i].sent[1].filename,
                               size |-> calls[i].sent[1].size,
                               key |-> calls[i].key]>>
  /\ calls[i].file = <<>>

\* C34: an exception of the progress sink of upload() is reported as an
\* UploadError like a transfer fault: when progress(0) throws no PUT is issued
\* although a grant was obtained; when progress(100) throws after the PUT
\* succeeded no commit is issued, so no file record is registered.
C34_SinkThrowIsUploadError ==
  \A i \in 1..Len(files) :
    /\ SinkThrewAt(i, 0) =>
         /\ RejectedAsTransferFault(i)
         /\ Has(calls[i].trace, "presign_ok")
         /\ Grants(i) = {calls[i].key}
         /\ SentOps(i, "put") = {}
         /\ SentOps(i, "commit") = {}
    /\ (SinkThrewAt(i, 100) /\ ~SinkThrewAt(i, 0)) =>
         /\ RejectedAsTransferFault(i)
         /\ Has(calls[i].trace, "put_ok")
         /\ Cardinality(SentOps(i, "put")) = 1
         /\ SentOps(i, "commit") = {}

\* the sink returned at 0 and threw at 100, after the bytes were transferred
C34_Witness ==
  /\ bpc = "direct"
  /\ SinkThrewAt(1, 100)
  /\ ~SinkThrewAt(1, 0)
  /\ Has(calls[1].trace, "put_ok")
  /\ calls[1].pc = "rejected"


\* C35: upload() with a progress sink: when validation or the presign call
\* fails the sink is never invoked; when the byte transfer fails the sink has
\* been invoked with 0 exactly once and never with 100; the commit call fails
\* only after the sink has reported 100.
C35_ProgressByFailurePoint ==
  \A i \in 1..Len(files) :
    (files[i].t # "null" /\ Given(files[i].onProgress)) =>
      /\ (calls[i].pc = "rejected" /\ calls[i].sent = <<>>) => ProgressOf(i) = <<>>
      /\ Has(calls[i].trace, "presign_fail") => ProgressOf(i) = <<>>
      /\ Has(calls[i].trace, "put_fail") => ProgressOf(i) = <<0>>
      /\ Has(calls[i].trace, "commit_fail") =>
           /\ ProgressOf(i) = <<0, 100>>
           /\ \A q \in At(i, "commit_fail"), p \in At(i, "progress") : p < q

\* a commit call failed after the sink had reported 0 and 100
C35_Witness ==
  /\ bpc = "direct"
  /\ Given(files[1].onProgress)
  /\ Has(calls[1].trace, "commit_fail")
  /\ calls[1].pc = "rejected"
  /\ ProgressOf(1) = <<0, 100>>


Recorded(res) == Len(res.successful) + Len(res.failed)

\* the item of the entry that a step appended to res2, res1 being the lists
\* before the step
NewlyRecorded(res1, res2) ==
  IF Len(res2.successful) > Len(res1.successful)
    THEN res2.successful[Len(res2.successful)].item
    ELSE res2.failed[Len(res2.failed)].item

\* C36: when onFileComplete and onProgress are invoked for an item, its
\* entry has been appended to successful or failed and the completed count
\* passed to onProgress is successful.length + failed.length; onFileComplete
\* comes before onProgress, and the recording and the callbacks of an item
\* are one step in which nothing of another item happens.
C36_CallbacksSeeOwnEntry ==
  [][ /\ Recorded(results') \in {Recorded(results), Recorded(results) + 1}
      /\ Len(fcLog') \in {Len(fcLog), Len(fcLog) + 1}
      /\ Len(progLog') \in {Len(progLog), Len(progLog) + 1}
      /\ fcLog' # fcLog =>
           /\ fcLog' = Append(fcLog, fcLog'[Len(fcLog')])
           /\ Recorded(results') = Recorded(results) + 1
           /\ fcLog'[Len(fcLog')].item = NewlyRecorded(results, results')
           /\ Throws(options.onFileComplete, 0) => progLog' = progLog
      /\ progLog' # progLog =>
           /\ progLog' = Append(progLog, progLog'[Len(progLog')])
           /\ Recorded(results') = Recorded(results) + 1
           /\ progLog'[Len(progLog')][2] = Recorded(results')
           /\ completed' = Recorded(results')
           /\ Given(options.onFileComplete) => fcLog' # fcLog
      /\ Recorded(results') # Recorded(results) =>
           /\ Given(options.onFileComplete) => fcLog' # fcLog
           /\ (Given(options.onProgress) /\ ~Throws(options.onFileComplete, 0)) => progLog' # progLog
    ]_vars

\* both callbacks have been invoked for two items, one recorded in
\* successful and one in failed
C36_Witness ==
  /\ Len(fcLog) = 2
  /\ Len(progLog) = 2
  /\ Len(results.successful) = 1
  /\ Len(results.failed) = 1
  /\ progLog[2][2] = 2


\* the errors with which putRaw can reject
TransferFaults ==
  {putRaw(out).err : out \in {o \in PutOutcomes \cup BatchPutOutcomes : putRaw(o).k = "reject"}}

\* C37: the UploadError of a failed byte transfer has status code 500 and code
\* UPLOAD_ERROR whatever the fault was; the status of the PUT and the kind of
\* the fault (which has no status code at the transport for a network error or
\* a timeout) are found only in its message.
C37_UploadErrorHidesFault ==
  \A i \in DOMAIN calls :
    Has(calls[i].trace, "put_fail") =>
      /\ RejectedAsTransferFault(i)
      /\ calls[i].err.statusCode = <<500>>
      /\ calls[i].err.retryAfter = <<>>
      /\ \E f \in TransferFaults :
           /\ calls[i].err.message = "Failed to upload file: " \o f.message
           /\ f.statusCode \in {<<>>, <<403>>}
           /\ f.statusCode = <<>> <=> f.code \in {<<"NETWORK_ERROR">>, <<"TIMEOUT">>}

\* a PUT answered with status 403 made upload() reject
C37_Witness ==
  /\ bpc = "direct"
  /\ Has(calls[1].trace, "put_fail")
  /\ calls[1].err.message =
       "Failed to upload file: " \o "Upload failed with status " \o Str(IntChars(403))


\* C38: Metrics.get() does not coordinate fetches: a get() that is not served
\* from the cache issues a request of its own whatever fetches are pending;
\* every response that arrives overwrites the cache and the expiry with its
\* own call's, so the last arrival stays, be it of the older request;
\* invalidateCache() leaves pending fetches alone, and their responses fill
\* the cache again.
C38_FetchesUncoordinated ==
  [][ /\ Len(metrics'.gets) > Len(metrics.gets) =>
           LET c == metrics'.gets[Len(metrics'.gets)]
           IN  IF ServedFromCache(c)
                 THEN c.req = 0 /\ metrics'.requests = metrics.requests
                 ELSE /\ c.req = metrics.requests + 1
                      /\ metrics'.requests = metrics.requests + 1
                      /\ c.pc = "pending"
      /\ \A k \in 1..Len(metrics.gets) :
           (metrics.gets[k].pc = "pending" /\ metrics'.gets[k].pc = "resolved") =>
             /\ metrics'.cache = <<metrics.gets[k].req>>
             /\ metrics'.cacheExpiry = metrics.gets[k].start + CacheTTL
             /\ metrics'.gets[k].value = <<metrics.gets[k].req>>
      /\ (metrics'.invalidated /\ ~metrics.invalidated) =>
           /\ metrics'.gets = metrics.gets
           /\ metrics'.requests = metrics.requests
    ]_vars

\* two get() calls overlapped, the later request was answered first and the
\* cache holds the response to the earlier one with the older expiry
C38_Witness ==
  /\ Len(metrics.gets) = 2
  /\ metrics.gets[1].req = 1 /\ metrics.gets[1].pc = "resolved"
  /\ metrics.gets[2].req = 2 /\ metrics.gets[2].pc = "resolved"
  /\ metrics.cache = <<1>>
  /\ metrics.cacheExpiry = metrics.gets[1].start + CacheTTL
  /\ metrics.gets[1].start < metrics.gets[2].start


\* the errors with which the request of get() can reject
MetricsFaults ==
  {request(out).err : out \in {o \in MetricsOutcomes : request(o).k = "reject"}}

\* C39: when the request of get() fails, get() rejects with the request's
\* error and the cached value and the expiry are what they were, so that a
\* valid entry stays served and an empty cache stays empty.
C39_FailedGetKeepsCache ==
  [][ \A k \in 1..Len(metrics.gets) :
        (metrics.gets[k].pc = "pending" /\ metrics'.gets[k].pc = "rejected") =>
          /\ metrics'.gets[k].err \in MetricsFaults
          /\ metrics'.gets[k].value = <<>>
          /\ metrics'.cache = metrics.cache
          /\ metrics'.cacheExpiry = metrics.cacheExpiry
          /\ metricsGet(metrics', TRUE).gets[Len(metrics.gets) + 1].value =
               metricsGet(metrics, TRUE).gets[Len(metrics.gets) + 1].value
    ]_vars

\* a get() that bypassed a valid cache entry was rejected and the entry is
\* still there and still valid
C39_Witness ==
  /\ Len(metrics.gets) = 2
  /\ metrics.gets[1].pc = "resolved" /\ metrics.gets[1].req = 1
  /\ metrics.gets[2].pc = "rejected" /\ metrics.gets[2].req = 2
  /\ metrics.gets[2].cacheAtStart = <<1>>
  /\ metrics.cache = <<1>>
  /\ metrics.cacheExpiry = metrics.gets[1].start + CacheTTL
  /\ metrics.now < metrics.cacheExpiry


\* two folders of the backend with the same name, case aside, under the same
\* parent
DuplicateFolders ==
  {<<i, j>> \in (1..Len(folders.backend)) \X (1..Len(folders.backend)) :
     /\ i < j
     /\ folders.backend[i].parentId = folders.backend[j].parentId
     /\ SameName(folders.backend[i].name, folders.backend[j].name)}

\* create requests of two calls for the same segment under the same parent
TwinPosts ==
  {<<p, q>> \in (1..Len(folders.posts)) \X (1..Len(folders.posts)) :
     /\ p < q
     /\ folders.posts[p].by # folders.posts[q].by
     /\ folders.posts[p].parentId = folders.posts[q].parentId
     /\ SameName(folders.posts[p].name, folders.posts[q].name)}

\* C40: createPath checks and then creates, per segment, without atomicity:
\* a call creates a segment because its own listing held no match, whatever
\* another call has requested meanwhile, so calls that interleave request the
\* same name twice under one parent; two folders of one name under one parent
\* come about only through calls that overlapped.
C40_CheckThenCreate ==
  /\ \A pq \in TwinPosts :
       LET p == folders.posts[pq[1]]
           q == folders.posts[pq[2]]
           s == folders.calls[q.by].steps[q.k]
       IN  /\ s.created /\ s.reused = <<>>
           /\ \A i \in 1..Len(s.items) : ~SameName(s.items[i].name, q.name)
           /\ s.parentId = p.parentId
  /\ DuplicateFolders # {} => \E n \in 1..Len(folders.calls) : ~folders.calls[n].alone

\* two calls for the same path both listed the root before either created
\* the first segment, both requested it, and the backend made two folders
C40_Witness ==
  /\ Len(folders.calls) = 2
  /\ folders.calls[1].path = folders.calls[2].path
  /\ Len(folders.calls[1].steps) >= 1 /\ Len(folders.calls[2].steps) >= 1
  /\ folders.calls[1].steps[1].items = folders.calls[2].steps[1].items
  /\ \E pq \in TwinPosts :
       /\ folders.posts[pq[1]].k = 1 /\ folders.posts[pq[2]].k = 1
       /\ folders.posts[pq[1]].name = folders.posts[pq[2]].name
  /\ DuplicateFolders # {}
====
